---- MODULE Spec2Model ----
(***************************************************************************)
(* Glyphdelve combat core: the damage pipeline of CombatSystem.ts, its     *)
(* trigger context and the reactive handlers it dispatches to (Spec); the  *)
(* tail of the combat tick, summon casts and the recovery and event nodes  *)
(* of Game.ts (SpecRun); the enemy ability phases of EnemyAI.ts            *)
(* (SpecAbility).                                                          *)
(*                                                                         *)
(* Numbers.  JavaScript numbers that carry fractions are kept exact:       *)
(*   - a damage amount in flight is a rational [n, d] (d > 0);             *)
(*   - health is stored in units of 1/HpUnit, so that one poison tick      *)
(*     (2 * stacks * dt, dt = 1/60 s) is a whole number of units;          *)
(*   - timers are kept in thirds of a millisecond (Ms), so that one tick   *)
(*     of dt = 1/60 s is a whole number;  damageScalar is in hundredths.   *)
(* Positions are points on a line; dist is the absolute difference.        *)
(***************************************************************************)
EXTENDS Integers, Sequences, FiniteSets, TLC

VARIABLES player, entities, combatLog, triggerChainDepths, deathCauseDoT,
          steps, lastEvent, lastResult, lastCtx, obs, tally, game

vars == <<player, entities, combatLog, triggerChainDepths, deathCauseDoT,
          steps, lastEvent, lastResult, lastCtx, obs, tally, game>>

----------------------------------------------------------------------------
(* Bounds of the model *)

MaxEnemies == 9

MaxSteps == 2

MaxStack == 6

(* HARD_CAPS *)

maxPoisonStacks == 12

maxDamageReductionPct == 70

maxTriggerChainDepth == 4

maxSameTriggerRepeats == 2

maxSpawnedFromEvent == 6

maxCombatLog == 200

(* health units per hit point *)

HpUnit == 90

(* millisecond timers are kept in thirds of a millisecond: one 60 Hz tick   *)
(* takes 1000/60 ms off them                                              *)
MsUnit == 3

Ms(x) == x * MsUnit

(* the logic tick, dt = 1/60 s, in timer units *)
TickMs == Ms(1000) \div 60

(* JavaScript NaN, and a HARD_CAPS member that is not defined *)

NaN == -999

maxBleedStacks == NaN

maxSlowStacks == NaN

(* a field that holds undefined *)

Undefined == -998

PlayerId == 0

SummonId == 50

MissingId == 99

----------------------------------------------------------------------------
(* Exact arithmetic on damage amounts *)

R(k) == [n |-> k, d |-> 1]

RECURSIVE GCD(_, _)
GCD(a, b) == IF b = 0 THEN a ELSE GCD(b, a % b)

(* the same amount in lowest terms *)
Lowest(n, d) ==
  [n |-> n \div GCD(IF n < 0 THEN -n ELSE n, d),
   d |-> d \div GCD(IF n < 0 THEN -n ELSE n, d)]

RMul(r, a, b) == Lowest(r.n * a, r.d * b)

RSub(a, b) == [n |-> a.n * b.d - b.n * a.d, d |-> a.d * b.d]

RLeq(a, b) == a.n * b.d <= b.n * a.d

RMin(a, b) == IF RLeq(a, b) THEN a ELSE b

RMax(a, b) == IF RLeq(a, b) THEN b ELSE a

(* Math.round: nearest integer, halves toward +infinity *)
MathRound(r) == (2 * r.n + r.d) \div (2 * r.d)

MathFloor(r) == r.n \div r.d

Abs(x) == IF x < 0 THEN -x ELSE x

dist(a, b) == Abs(a - b)

Min2(a, b) == IF a <= b THEN a ELSE b

(* Math.min, which yields NaN as soon as one argument is undefined or NaN *)
MathMin(a, b) == IF a = NaN \/ b = NaN THEN NaN ELSE Min2(a, b)

(* x || 0 *)
OrZero(x) == IF x = NaN THEN 0 ELSE x

Max2(a, b) == IF a <= b THEN b ELSE a

----------------------------------------------------------------------------
(* Trigger context *)

TriggerKinds == {"OnDamageTaken", "OnHit", "OnKill", "OnDeath"}

newTriggerContext ==
  [depth |-> 0, triggerCounts |-> [k \in TriggerKinds |-> 0], spawnCount |-> 0]

(* the caps compared with > instead of >= *)
canTrigger_OffByOne(ctx, triggerId) ==
  IF ctx.depth > maxTriggerChainDepth THEN FALSE
  ELSE IF ctx.triggerCounts[triggerId] > maxSameTriggerRepeats THEN FALSE
  ELSE TRUE

canTrigger(ctx, triggerId) ==
  IF ctx.depth >= maxTriggerChainDepth THEN FALSE
  ELSE IF ctx.triggerCounts[triggerId] >= maxSameTriggerRepeats THEN FALSE
  ELSE TRUE

recordTrigger(ctx, triggerId) ==
  [ctx EXCEPT !.depth = @ + 1, !.triggerCounts[triggerId] = @ + 1]

canSpawn(ctx) == ctx.spawnCount < maxSpawnedFromEvent

----------------------------------------------------------------------------
(* The world a damage event runs in: the RunState fields the pipeline      *)
(* touches, the trigger context of the event, and what was observed.       *)

addCombatLog_DropNewest(w, entry) ==
  LET pushed == Append(w.combatLog, entry)
  IN  [w EXCEPT !.combatLog =
         IF Len(pushed) > maxCombatLog THEN SubSeq(pushed, 1, maxCombatLog)
         ELSE pushed]

addCombatLog(w, entry) ==
  LET pushed == Append(w.combatLog, entry)
  IN  [w EXCEPT !.combatLog =
         IF Len(pushed) > maxCombatLog THEN Tail(pushed) ELSE pushed]

LogEntry(type, source, sourceId, target, value) ==
  [type |-> type, source |-> source, sourceId |-> sourceId,
   target |-> target, value |-> value]

IndexOf(ents, id) ==
  IF \E i \in 1..Len(ents) : ents[i].id = id
  THEN CHOOSE i \in 1..Len(ents) :
         ents[i].id = id /\ \A j \in 1..(i - 1) : ents[j].id /= id
  ELSE 0

hasEntity(w, id) == id = PlayerId \/ IndexOf(w.entities, id) /= 0

findEntity(w, id) ==
  IF id = PlayerId THEN w.player ELSE w.entities[IndexOf(w.entities, id)]

(* write back a mutated entity object *)
putEntity(w, e) ==
  IF e.id = PlayerId THEN [w EXCEPT !.player = e]
  ELSE [w EXCEPT !.entities[IndexOf(w.entities, e.id)] = e]

(* hp <= 0: clamp, mark not alive, start the death animation *)
markDead(e) ==
  [e EXCEPT !.hp = 0, !.alive = FALSE, !.animState = "death", !.deathAnimMs = Ms(500)]

(* the entities that died so far in the running step *)
Died(w) == {w.obs.died[k] : k \in 1..Len(w.obs.died)}

Note(w, stage, id) ==
  [w EXCEPT !.obs.trace = Append(@, [stage |-> stage, id |-> id, call |-> w.obs.calls,
                                     died |-> Died(w)])]

(* a hit of a projectile: the target and the projectile that made it *)
NoteBy(w, stage, id, by) ==
  [w EXCEPT !.obs.trace = Append(@, [stage |-> stage, id |-> id, call |-> w.obs.calls,
                                     died |-> Died(w), by |-> by])]

NoteDeath(w, before, id) ==
  IF before THEN [w EXCEPT !.obs.died = Append(@, id)] ELSE w

----------------------------------------------------------------------------
(* Status application *)

applyBleed(target, stacks) ==
  [target EXCEPT !.bleedStacks = MathMin(maxBleedStacks, OrZero(@) + stacks)]

applySlow(target, stacks, duration) ==
  [target EXCEPT !.slowStacks = MathMin(maxSlowStacks, OrZero(@) + stacks),
                 !.slowDuration = duration]

applyBrittle(target, duration) ==
  [target EXCEPT !.brittle = TRUE, !.brittleDuration = duration]

applyExposed(target, duration) ==
  [target EXCEPT !.exposed = TRUE, !.exposedDuration = duration]

----------------------------------------------------------------------------
(* Reactive handlers that do not re-enter the pipeline *)

(* Debilitating Presence: a debuff also slows the target *)
DebilitatingPresence(targetId, w) ==
  IF "debilitating_presence" \in w.player.passives
  THEN addCombatLog(
         putEntity(w, applySlow(findEntity(w, targetId), 1, Ms(4000))),
         LogEntry("trigger", "debilitating_presence", -1, targetId, -1))
  ELSE w

(* Packlord Coronet: a debuff marks the target *)
PacklordCoronet(targetId, w) ==
  IF "packlord_coronet" \in w.player.items
  THEN addCombatLog(
         putEntity(w, [findEntity(w, targetId) EXCEPT !.packlordMark = Ms(6000)]),
         LogEntry("trigger", "packlord_coronet", -1, targetId, -1))
  ELSE w

processOnDebuffAppliedTriggers(targetId, debuffType, w) ==
  PacklordCoronet(targetId,
    DebilitatingPresence(targetId, Note(w, "OnDebuffApplied", targetId)))

RECURSIVE AreaDamageLoop(_, _, _)
AreaDamageLoop(targets, i, w) ==
  IF i > Len(targets) THEN w
  ELSE LET t == findEntity(w, targets[i])
       IN  IF t.type = "enemy"
           THEN AreaDamageLoop(targets, i + 1,
                  processOnDebuffAppliedTriggers(targets[i], "bleed",
                    addCombatLog(putEntity(w, applyBleed(t, 1)),
                                 LogEntry("trigger", "bleeding_wounds", -1, targets[i], -1))))
           ELSE AreaDamageLoop(targets, i + 1, w)

processOnAreaDamageTriggers(attackerId, targets, damage, w) ==
  IF findEntity(w, attackerId).type = "player"
     /\ "bleeding_wounds" \in w.player.passives
  THEN AreaDamageLoop(targets, 1, Note(w, "OnAreaDamage", attackerId))
  ELSE Note(w, "OnAreaDamage", attackerId)

(* Fungal Link: summon hits heal the player *)
FungalLink(attackerId, damage, w) ==
  LET attacker == findEntity(w, attackerId)
      heal == Max2(1, MathRound([n |-> damage * 15, d |-> 100]))
  IN  IF attacker.type = "summon" /\ attacker.faction = "player" /\ damage > 0
         /\ w.player.fungalLinkMs > 0
      THEN addCombatLog(
             [w EXCEPT !.player.hp = Min2(w.player.maxHp, @ + heal * HpUnit)],
             LogEntry("heal", "fungal_link", -1, PlayerId, heal))
      ELSE w

(* Venomweave Cloak: player hits poison the enemy *)
VenomweaveCloak_Uncapped(attackerId, targetId, w) ==
  IF findEntity(w, attackerId).type = "player" /\ "venomweave_cloak" \in w.player.items
     /\ findEntity(w, targetId).type = "enemy"
  THEN processOnDebuffAppliedTriggers(targetId, "poison",
         putEntity(w, [findEntity(w, targetId) EXCEPT !.poisonStacks = @ + 1]))
  ELSE w

VenomweaveCloak(attackerId, targetId, w) ==
  IF findEntity(w, attackerId).type = "player" /\ "venomweave_cloak" \in w.player.items
     /\ findEntity(w, targetId).type = "enemy"
  THEN processOnDebuffAppliedTriggers(targetId, "poison",
         putEntity(w, [findEntity(w, targetId) EXCEPT
           !.poisonStacks = Min2(maxPoisonStacks, @ + 1)]))
  ELSE w

(* Spore Sac: a hit on an enemy at the poison cap bursts for 30 *)
SporeSac(attackerId, targetId, w) ==
  IF findEntity(w, attackerId).type = "player" /\ "spore_sac" \in w.player.items
     /\ findEntity(w, targetId).type = "enemy"
     /\ findEntity(w, targetId).poisonStacks >= maxPoisonStacks
  THEN addCombatLog(
         putEntity(w, [findEntity(w, targetId) EXCEPT
           !.hp = @ - 30 * HpUnit, !.flashMs = Ms(200)]),
         LogEntry("trigger", "item", -1, targetId, 30))
  ELSE w

(* (damage as any)._isMelee of a number is undefined *)
isMelee(damage) == FALSE

(* Brittle Fury: melee hits make the enemy brittle *)
BrittleFury(attackerId, targetId, damage, w) ==
  IF findEntity(w, attackerId).type = "player" /\ "brittle_fury" \in w.player.passives
     /\ findEntity(w, targetId).type = "enemy" /\ isMelee(damage)
  THEN processOnDebuffAppliedTriggers(targetId, "brittle",
         addCombatLog(
           putEntity(w, applyBrittle(findEntity(w, targetId), Ms(3000))),
           LogEntry("trigger", "brittle_fury", -1, targetId, -1)))
  ELSE w

processOnHitTriggers(attackerId, targetId, damage, w) ==
  BrittleFury(attackerId, targetId, damage,
    SporeSac(attackerId, targetId,
      VenomweaveCloak(attackerId, targetId,
        FungalLink(attackerId, damage, w))))

(* ids of the living enemy-faction entities other than `except` within   *)
(* `radius` of `pos`, in entity order                                      *)
NearbyEnemies(w, pos, radius, except) ==
  SelectSeq([i \in 1..Len(w.entities) |-> w.entities[i].id],
            LAMBDA id : LET e == findEntity(w, id)
                        IN  e.alive /\ e.faction = "enemy" /\ id /= except
                            /\ dist(e.pos, pos) < radius)

RECURSIVE SpreadPoison(_, _, _, _)
SpreadPoison(ids, i, spreadStacks, w) ==
  IF i > Len(ids) THEN w
  ELSE SpreadPoison(ids, i + 1, spreadStacks,
         putEntity(w, [findEntity(w, ids[i]) EXCEPT
           !.poisonStacks = Min2(maxPoisonStacks, @ + spreadStacks)]))

(* Feral Momentum: a kill raises the damage scalar, up to five stacks *)
FeralMomentum(w) ==
  IF "feral_momentum" \in w.player.passives
  THEN [w EXCEPT !.player.damageScalar = Min2(@ + 8, 100 + 8 * 5)]
  ELSE w

(* Toxic Proliferation: half the victim's poison spreads to nearby enemies *)
ToxicProliferation(targetId, w) ==
  LET enemy == findEntity(w, targetId)
      spreadStacks == MathFloor([n |-> enemy.poisonStacks * 5, d |-> 10])
      nearby == NearbyEnemies(w, enemy.pos, 80, targetId)
  IN  IF enemy.type = "enemy" /\ "toxic_proliferation" \in w.player.passives
         /\ enemy.poisonStacks > 0 /\ spreadStacks > 0 /\ canSpawn(w.ctx)
      THEN [SpreadPoison(nearby, 1, spreadStacks, w)
              EXCEPT !.obs.spread = @ + Len(nearby)]
      ELSE w

processOnKillTriggers(attackerId, targetId, w) ==
  IF findEntity(w, attackerId).faction /= "player" THEN w
  ELSE ToxicProliferation(targetId, FeralMomentum(w))

RECURSIVE DeathBlossom(_, _, _)
DeathBlossom(ids, i, w) ==
  IF i > Len(ids) THEN w
  ELSE LET e == [findEntity(w, ids[i]) EXCEPT !.hp = @ - 15 * HpUnit, !.flashMs = Ms(100)]
       IN  DeathBlossom(ids, i + 1,
             IF e.hp <= 0
             THEN NoteDeath(putEntity(w, markDead(e)), e.alive, e.id)
             ELSE putEntity(w, e))

processOnDeathTriggers(targetId, attackerId, w) ==
  LET target == findEntity(w, targetId)
  IN  IF target.type = "summon" /\ target.faction = "player"
         /\ "death_blossom" \in w.player.passives
      THEN DeathBlossom(NearbyEnemies(w, target.pos, 48, MissingId), 1, w)
      ELSE w

----------------------------------------------------------------------------
(* The damage pipeline.  `fuel` is the room left on the call stack: it    *)
(* goes down by one with every nested processDamage call, and a call made *)
(* with none left is recorded as a chain that did not come to an end.     *)

ZeroResult == [finalDamage |-> 0, dodged |-> FALSE, killed |-> FALSE, blocked |-> FALSE]

DodgedResult == [finalDamage |-> 0, dodged |-> TRUE, killed |-> FALSE, blocked |-> FALSE]

DamageEventOf(attackerId, targetId, baseDamage, damageType) ==
  [attackerId |-> attackerId, targetId |-> targetId,
   baseDamage |-> baseDamage, damageType |-> damageType]

(* reflect damage taken by the attacker object, with the inline lethal check *)
Reflect(w, attackerId, reflectDmg) ==
  LET a == [findEntity(w, attackerId) EXCEPT !.hp = @ - reflectDmg * HpUnit]
  IN  IF a.hp <= 0
      THEN NoteDeath(putEntity(w, markDead(a)), a.alive, attackerId)
      ELSE putEntity(w, a)

(* the liveness of the target is not looked at *)
isInvalid_NoAliveCheck(event, w) ==
  \/ ~hasEntity(w, event.targetId)
  \/ ~hasEntity(w, event.attackerId)

(* !target || !target.alive || !attacker *)
isInvalid(event, w) ==
  \/ ~hasEntity(w, event.targetId)
  \/ ~findEntity(w, event.targetId).alive
  \/ ~hasEntity(w, event.attackerId)

(* the comparison the wrong way round *)
isAvoided_Flipped(event, w) == findEntity(w, event.targetId).invulnMs < 0

(* target.invulnMs > 0 *)
isAvoided(event, w) == findEntity(w, event.targetId).invulnMs > 0

(* the reduction without its cap *)
armorReduction_Uncapped(armor, mitigated) == [n |-> armor * 5, d |-> 10]

(* Math.min(armor * 0.5, mitigated * HARD_CAPS.maxDamageReduction) *)
armorReduction(armor, mitigated) ==
  RMin([n |-> armor * 5, d |-> 10], RMul(mitigated, maxDamageReductionPct, 100))

(* the subtraction without its floor *)
afterArmor_NoFloor(armor, mitigated) ==
  RSub(mitigated, armorReduction(armor, mitigated))

(* Math.max(1, mitigated - reduction) *)
afterArmor(armor, mitigated) ==
  RMax(R(1), RSub(mitigated, armorReduction(armor, mitigated)))

(* the locals of the running processDamage call that its later stages    *)
(* read: finalDamage and killed                                            *)
NoFrame == [finalDamage |-> 0, killed |-> FALSE]

(* back in the caller after a nested call: the caller's locals again *)
Resume(w, frame) == [w EXCEPT !.frame = frame]

Enter(w) == [w EXCEPT !.obs.calls = @ + 1]

(* mitigated *= a / b when cond holds *)
ScaleIf(cond, mitigated, a, b) == IF cond THEN RMul(mitigated, a, b) ELSE mitigated

(* 3. mitigation: the amounts of one hit, up to Math.round(mitigated) *)
Mitigation(event, w) ==
  LET target == findEntity(w, event.targetId)
      attacker == findEntity(w, event.attackerId)
      pre == ScaleIf(attacker.type = "enemy" /\ attacker.weakenedMs > 0,
                     event.baseDamage, 8, 10)
      armored == event.damageType = "physical" /\ target.type = "player"
      post == IF armored THEN afterArmor(target.armor, pre) ELSE pre
      bySummon == attacker.faction = "player" /\ attacker.type = "summon"
      scaled == ScaleIf(attacker.faction = "player" /\ attacker.type = "player",
                        post, attacker.damageScalar, 100)
      hive == ScaleIf(bySummon /\ "hive_mind_crown" \in w.player.items,
                      scaled, 110, 100)
      marked == ScaleIf(bySummon /\ "packlord_coronet" \in w.player.items
                          /\ target.packlordMark /= 0,
                        hive, 130, 100)
      brittle == ScaleIf(target.brittle, marked, 150, 100)
      exposed == ScaleIf(target.exposed, brittle, 125, 100)
  IN  [attackerId |-> event.attackerId, targetId |-> event.targetId,
       damageType |-> event.damageType,
       armor |-> IF target.type = "player" THEN target.armor ELSE 0,
       armored |-> armored, base |-> event.baseDamage, pre |-> pre,
       reduction |-> IF armored THEN armorReduction(target.armor, pre) ELSE R(0),
       post |-> post, rounded |-> MathRound(exposed),
       wasBrittle |-> target.brittle, beforeBrittle |-> marked, mitigated |-> exposed,
       shield |-> IF target.type = "player" THEN target.barkShieldHp ELSE 0,
       hp |-> target.hp]

(* the brittle multiplier without the status being cleared *)
ConsumeBrittle_Kept(targetId, w) ==
  IF findEntity(w, targetId).brittle
  THEN addCombatLog(w, LogEntry("trigger", "brittle", -1, targetId, -1))
  ELSE w

(* brittle is consumed by the hit *)
ConsumeBrittle(targetId, w) ==
  IF findEntity(w, targetId).brittle
  THEN addCombatLog(
         putEntity(w, [findEntity(w, targetId) EXCEPT !.brittle = FALSE,
                                                     !.brittleDuration = Undefined]),
         LogEntry("trigger", "brittle", -1, targetId, -1))
  ELSE w

(* the shield takes the whole hit, whatever is left in the pool *)
Absorbed_Unbounded(target, rounded) ==
  IF target.type = "player" /\ target.barkShieldHp > 0
  THEN rounded
  ELSE 0

(* what the bark shield of the target takes of a hit *)
Absorbed(target, rounded) ==
  IF target.type = "player" /\ target.barkShieldHp > 0
  THEN Min2(target.barkShieldHp, rounded)
  ELSE 0

BarkShieldAbsorb(absorbed, w) ==
  IF absorbed > 0
  THEN addCombatLog([w EXCEPT !.player.barkShieldHp = @ - absorbed],
                    LogEntry("trigger", "item", -1, -1, absorbed))
  ELSE w

(* the hit as it stands right after application, before any handler runs *)
RecordHit(hit, absorbed, w) ==
  [w EXCEPT !.obs.hits = Append(@,
     [attackerId |-> hit.attackerId, targetId |-> hit.targetId,
      damageType |-> hit.damageType, armor |-> hit.armor,
      armored |-> hit.armored, base |-> hit.base, pre |-> hit.pre,
      reduction |-> hit.reduction, post |-> hit.post,
      wasBrittle |-> hit.wasBrittle, beforeBrittle |-> hit.beforeBrittle,
      mitigated |-> hit.mitigated,
      rounded |-> hit.rounded, absorbed |-> absorbed,
      finalDamage |-> hit.rounded - absorbed,
      shield |-> hit.shield, hp |-> hit.hp,
      shieldAfter |-> IF hit.targetId = PlayerId THEN w.player.barkShieldHp ELSE 0,
      hpAfter |-> findEntity(w, hit.targetId).hp,
      brittleAfter |-> findEntity(w, hit.targetId).brittle,
      brittleDurationAfter |-> findEntity(w, hit.targetId).brittleDuration,
      call |-> w.obs.calls, died |-> Died(w)])]

(* 4. application: shield, health, flash, log *)
ApplyDamage(hit, absorbed, w) ==
  Note(
    RecordHit(hit, absorbed,
      [addCombatLog(
         putEntity(w, [findEntity(w, hit.targetId) EXCEPT
                         !.hp = @ - (hit.rounded - absorbed) * HpUnit,
                         !.flashMs = Ms(150), !.animState = "hit"]),
         LogEntry("damage", "entity", hit.attackerId, hit.targetId,
                  hit.rounded - absorbed))
       EXCEPT !.frame = [finalDamage |-> hit.rounded - absorbed, killed |-> FALSE]]),
    "apply", hit.targetId)

Application(hit, w) ==
  ApplyDamage(hit, Absorbed(findEntity(w, hit.targetId), hit.rounded),
    BarkShieldAbsorb(Absorbed(findEntity(w, hit.targetId), hit.rounded),
      ConsumeBrittle(hit.targetId, w)))

(* a guarded handler is about to run: recordTrigger, and the stage noted *)
Fire(w, triggerId, id) ==
  Note([w EXCEPT !.ctx = recordTrigger(@, triggerId)], triggerId, id)

Suppress(w) == [w EXCEPT !.obs.suppressed = @ + 1]

RECURSIVE processDamage(_, _, _)
RECURSIVE processOnDamageTakenTriggers(_, _, _, _, _)
RECURSIVE ThornMantleLoop(_, _, _, _)
RECURSIVE playerDamageTaken(_, _, _, _)

(* state.entities.forEach of the Thorn Mantle retaliation: w.hitTargets  *)
(* collects the entities that were hit                                    *)
ThornMantleLoop(i, hitTargets, w, fuel) ==
  IF i > Len(w.entities) THEN [w EXCEPT !.hitTargets = hitTargets]
  ELSE IF w.entities[i].alive /\ w.entities[i].faction = "enemy"
          /\ dist(w.entities[i].pos, w.player.pos) < 40
  THEN ThornMantleLoop(i + 1, Append(hitTargets, w.entities[i].id),
         Resume(processDamage(
                  DamageEventOf(PlayerId, w.entities[i].id,
                                [n |-> 8 * w.player.damageScalar, d |-> 100],
                                "physical"),
                  w, fuel - 1),
                w.frame),
         fuel)
  ELSE ThornMantleLoop(i + 1, hitTargets, w, fuel)

(* Guardian Bark Amulet: a shield at 30% health or less *)
GuardianBarkAmulet(w) ==
  IF "guardian_bark_amulet" \in w.player.items
     /\ 10 * w.player.hp <= 3 * w.player.maxHp
     /\ w.player.barkShieldCooldown <= 0 /\ w.player.barkShieldHp = 0
  THEN addCombatLog(
         [w EXCEPT !.player.barkShieldHp = 25,
                   !.player.barkShieldCooldown = Ms(60000)],
         LogEntry("trigger", "item", -1, -1, 25))
  ELSE w

(* Bramble Heart: flat reflect of 6, on a half-second cooldown *)
BrambleHeart(attackerId, w) ==
  IF "bramble_heart" \in w.player.items
     /\ findEntity(w, attackerId).faction = "enemy"
     /\ w.player.brambleCd <= 0
  THEN Reflect(addCombatLog([w EXCEPT !.player.brambleCd = Ms(500),
                                      !.obs.reflects = Append(@, "flat")],
                            LogEntry("trigger", "item", -1, -1, 6)),
               attackerId, 6)
  ELSE w

(* Thorned Hide: a quarter of the damage taken goes back *)
ThornedHide(attackerId, damage, w) ==
  IF "thorned_hide" \in w.player.passives
     /\ findEntity(w, attackerId).faction = "enemy"
     /\ MathRound([n |-> damage * 25, d |-> 100]) > 0
  THEN Reflect([w EXCEPT !.obs.reflects = Append(@, "percentage")],
               attackerId, MathRound([n |-> damage * 25, d |-> 100]))
  ELSE w

(* Thorn Mantle: while the buff runs, every enemy within 40 is hit for 8 *)
ThornMantle(w, fuel) ==
  IF w.player.thornMantleBuff > 0
  THEN ThornMantleLoop(1, <<>>, w, fuel)
  ELSE [w EXCEPT !.hitTargets = <<>>]

ThornMantleArea(w) ==
  IF Len(w.hitTargets) > 0
  THEN processOnAreaDamageTriggers(PlayerId, w.hitTargets, 8,
         addCombatLog(w, LogEntry("trigger", "thorn_mantle", -1, -1,
                                  Len(w.hitTargets))))
  ELSE w

(* the body of the handler for a player target *)
playerDamageTaken(attackerId, damage, w, fuel) ==
  ThornMantleArea(
    ThornMantle(
      ThornedHide(attackerId, damage,
        BrambleHeart(attackerId,
          GuardianBarkAmulet([w EXCEPT !.player.secondsSinceHit = 0]))),
      fuel))

(* the retaliation fires the handler again instead of returning *)
processOnDamageTakenTriggers_Refire(targetId, attackerId, damage, w, fuel) ==
  IF fuel <= 0 THEN [w EXCEPT !.obs.diverged = TRUE]
  ELSE IF findEntity(w, targetId).type /= "player" THEN w
  ELSE processOnDamageTakenTriggers(targetId, attackerId, damage,
         playerDamageTaken(attackerId, damage, w, fuel), fuel - 1)

(* the handler runs the player's reactions whatever entity was hit *)
processOnDamageTakenTriggers_AnyTarget(targetId, attackerId, damage, w, fuel) ==
  playerDamageTaken(attackerId, damage, w, fuel)

processOnDamageTakenTriggers(targetId, attackerId, damage, w, fuel) ==
  IF findEntity(w, targetId).type /= "player" THEN w
  ELSE playerDamageTaken(attackerId, damage, w, fuel)

(* 5. OnDamageTaken *)
OnDamageTaken(event, w, fuel) ==
  IF canTrigger(w.ctx, "OnDamageTaken")
  THEN processOnDamageTakenTriggers(event.targetId, event.attackerId,
         w.frame.finalDamage, Fire(w, "OnDamageTaken", event.targetId), fuel)
  ELSE Suppress(w)

(* 6. OnHit *)
OnHit(event, w) ==
  IF canTrigger(w.ctx, "OnHit")
  THEN processOnHitTriggers(event.attackerId, event.targetId,
         w.frame.finalDamage, Fire(w, "OnHit", event.targetId))
  ELSE Suppress(w)

(* 8. lethal check *)
LethalCheck(event, w) ==
  IF findEntity(w, event.targetId).hp <= 0
  THEN Note(NoteDeath([putEntity(w, markDead(findEntity(w, event.targetId)))
                         EXCEPT !.frame.killed = TRUE],
                      findEntity(w, event.targetId).alive, event.targetId),
            "lethal", event.targetId)
  ELSE Note(w, "survived", event.targetId)

(* 9. OnKill / OnDeath *)
OnKill(event, w) ==
  IF ~w.frame.killed THEN w
  ELSE IF canTrigger(w.ctx, "OnKill")
  THEN processOnKillTriggers(event.attackerId, event.targetId,
         Fire(w, "OnKill", event.targetId))
  ELSE Suppress(w)

OnDeath(event, w) ==
  IF ~w.frame.killed THEN w
  ELSE IF canTrigger(w.ctx, "OnDeath")
  THEN processOnDeathTriggers(event.targetId, event.attackerId,
         Fire(w, "OnDeath", event.targetId))
  ELSE Suppress(w)

KillLog(event, w) ==
  IF w.frame.killed
  THEN addCombatLog(w, LogEntry("kill", "entity", event.attackerId,
                                event.targetId, -1))
  ELSE w

(* the trigger depth of the event is recorded when a handler has run *)
RecordDepth(w) ==
  IF w.ctx.depth > 0
  THEN [w EXCEPT !.triggerChainDepths = Append(@, w.ctx.depth)]
  ELSE w

Return(w) ==
  [w EXCEPT !.result = [finalDamage |-> w.frame.finalDamage, dodged |-> FALSE,
                        killed |-> w.frame.killed, blocked |-> FALSE]]

Resolve_OnHitFirst(event, w, fuel) ==
  IF isInvalid(event, w) THEN [w EXCEPT !.result = ZeroResult]
  ELSE IF isAvoided(event, w) THEN [w EXCEPT !.result = DodgedResult]
  ELSE Return(RecordDepth(KillLog(event, OnDeath(event, OnKill(event,
         LethalCheck(event, OnDamageTaken(event, OnHit(event,
           Application(Mitigation(event, w), w)), fuel)))))))

(* an entered call: validity, avoidance, then the stages in order *)
Resolve(event, w, fuel) ==
  IF isInvalid(event, w) THEN [w EXCEPT !.result = ZeroResult]
  ELSE IF isAvoided(event, w) THEN [w EXCEPT !.result = DodgedResult]
  ELSE Return(RecordDepth(KillLog(event, OnDeath(event, OnKill(event,
         LethalCheck(event, OnHit(event, OnDamageTaken(event,
           Application(Mitigation(event, w), w), fuel))))))))

processDamage(event, w, fuel) ==
  IF fuel <= 0 THEN [w EXCEPT !.obs.diverged = TRUE]
  ELSE Resolve(event, Enter(w), fuel)

----------------------------------------------------------------------------
(* Poison tick: 2 damage per stack per second over dt = 1/60 s *)

RECURSIVE PoisonLoop(_, _)
PoisonLoop(i, w) ==
  IF i > Len(w.entities) THEN w
  ELSE LET e == w.entities[i]
           hurt == [e EXCEPT !.hp = @ - (e.poisonStacks * 2 * HpUnit) \div 60]
       IN  IF ~e.alive \/ e.type /= "enemy" \/ ~(e.poisonStacks > 0)
           THEN PoisonLoop(i + 1, w)
           ELSE IF hurt.hp <= 0
           THEN PoisonLoop(i + 1,
                  [addCombatLog(NoteDeath(putEntity(w, markDead(hurt)), TRUE, e.id),
                                LogEntry("kill", "poison", -1, e.id, -1))
                   EXCEPT !.deathCauseDoT = @ + 1])
           ELSE PoisonLoop(i + 1, putEntity(w, hurt))

processPoison(w) == PoisonLoop(1, w)

(* updateTimers' per-entity step, dt = 1/60 s *)
updateEntity(e) ==
  LET t == [e EXCEPT !.weakenedMs = IF @ > 0 THEN @ - TickMs ELSE @,
                     !.rootMs = IF @ > 0 THEN @ - TickMs ELSE @,
                     !.invulnMs = IF @ > 0 THEN @ - TickMs ELSE @,
                     !.flashMs = IF @ > 0 THEN @ - TickMs ELSE @,
                     !.deathAnimMs = IF ~e.alive /\ @ > 0 THEN @ - TickMs ELSE @]
  IN  [t EXCEPT !.animState = IF @ = "hit" /\ t.flashMs <= 0 /\ t.alive
                              THEN "idle" ELSE @]

updateTimers(w) ==
  [w EXCEPT !.player = updateEntity(
                         [@ EXCEPT !.brambleCd = Max2(0, @ - TickMs),
                                   !.barkShieldCooldown = Max2(0, @ - TickMs),
                                   !.fungalLinkMs = Max2(0, @ - TickMs)]),
            !.entities = [i \in 1..Len(@) |-> updateEntity(@[i])]]

Removable(e) == ~e.alive /\ e.deathAnimMs <= 0

cleanupEntities(w) ==
  [w EXCEPT !.entities = SelectSeq(@, LAMBDA e : ~Removable(e))]

(* Living Moss Shield: 2 * dt / 3 health a tick, up to maxHp *)
processRegen(w) ==
  IF ~w.player.alive THEN w
  ELSE IF "living_moss_shield" \in w.player.items
  THEN [w EXCEPT !.player.hp = Min2(w.player.maxHp, @ + (2 * HpUnit) \div (3 * 60))]
  ELSE w

----------------------------------------------------------------------------
(* Initial states: a player loadout and a pack of enemies *)

AllItems == {"guardian_bark_amulet", "bramble_heart", "venomweave_cloak",
             "spore_sac", "hive_mind_crown", "packlord_coronet"}

AllPassives == {"thorned_hide", "bleeding_wounds", "toxic_proliferation",
                "feral_momentum", "debilitating_presence", "death_blossom",
                "brittle_fury"}

Build(items, passives, thorn, fungal) ==
  [items |-> items, passives |-> passives, thornMantleBuff |-> thorn,
   fungalLinkMs |-> fungal]

BareBuild == Build({}, {}, 0, 0)

FullBuild == Build(AllItems, AllPassives, Ms(5000), Ms(6000))

Builds ==
  { BareBuild,
    Build({"bramble_heart", "guardian_bark_amulet"},
          {"thorned_hide", "bleeding_wounds"}, Ms(5000), 0),
    Build({"venomweave_cloak", "spore_sac", "packlord_coronet"},
          {"toxic_proliferation", "feral_momentum", "debilitating_presence"}, 0, 0),
    Build({"hive_mind_crown", "packlord_coronet"}, {"death_blossom"}, 0, Ms(6000)),
    FullBuild }

(* PlayerEntity.armor is a number; createPlayer starts it at 0 *)
Armors == {0, 3, 20}

Guards == {"none", "invuln", "shield"}

PlayerHps == {100, 25}

(* createPlayer, with the loadout the run has given the player *)
createPlayer(build, hp, armor, guard) ==
  [id |-> PlayerId, type |-> "player", faction |-> "player", pos |-> 0,
   hp |-> hp * HpUnit, maxHp |-> 100 * HpUnit, alive |-> TRUE,
   invulnMs |-> IF guard = "invuln" THEN Ms(200) ELSE 0,
   flashMs |-> 0, deathAnimMs |-> 0, animState |-> "idle",
   poisonStacks |-> 0, bleedStacks |-> 0, slowStacks |-> 0,
   slowDuration |-> Undefined, brittle |-> FALSE, brittleDuration |-> Undefined,
   exposed |-> FALSE, exposedDuration |-> Undefined, weakenedMs |-> 0, rootMs |-> 0, packlordMark |-> 0,
   armor |-> armor, damageScalar |-> 100,
   items |-> build.items, passives |-> build.passives,
   barkShieldHp |-> IF guard = "shield" THEN 5 ELSE 0,
   barkShieldCooldown |-> IF guard = "shield" THEN Ms(60000) ELSE 0,
   brambleCd |-> 0, thornMantleBuff |-> build.thornMantleBuff,
   fungalLinkMs |-> build.fungalLinkMs, secondsSinceHit |-> Ms(999000),
   radius |-> 12]

EnemyKinds == {"healthy", "weak", "poisoned", "weakened", "warded", "brittle"}

PackKinds == {"healthy", "weak", "poisoned"}

(* activeAbility === undefined; elapsed and effects are history: the phase *)
(* time since startAbility and the kinds of effect applied since then      *)
NoAbility ==
  [id |-> "none", phase |-> "none", timer |-> 0, targetPos |-> Undefined,
   startPos |-> Undefined, elapsed |-> 0, effects |-> {}]

createEnemy(id, kind) ==
  [id |-> id, type |-> "enemy", faction |-> "enemy", pos |-> 10,
   hp |-> (IF kind \in {"weak", "poisoned", "saturated"} THEN 5
           ELSE IF kind \in {"dying", "fading"} THEN 0 ELSE 40) * HpUnit,
   maxHp |-> 40 * HpUnit, alive |-> kind \notin {"dying", "fading"},
   invulnMs |-> IF kind = "warded" THEN Ms(400) ELSE 0,
   flashMs |-> 0,
   deathAnimMs |-> IF kind = "dying" THEN Ms(500)
                   ELSE IF kind = "fading" THEN TickMs ELSE 0,
   animState |-> IF kind \in {"dying", "fading"} THEN "death" ELSE "idle",
   poisonStacks |-> IF kind = "poisoned" THEN 4
                    ELSE IF kind = "saturated" THEN maxPoisonStacks ELSE 0,
   bleedStacks |-> 0, slowStacks |-> 0, slowDuration |-> Undefined,
   brittle |-> kind \in {"warded", "brittle"},
   brittleDuration |-> IF kind \in {"warded", "brittle"} THEN Ms(3000) ELSE Undefined,
   exposed |-> FALSE, exposedDuration |-> Undefined,
   weakenedMs |-> IF kind = "weakened" THEN Ms(1000) ELSE 0,
   packlordMark |-> 0, activeAbility |-> NoAbility, finished |-> NoAbility,
   radius |-> 10, rootMs |-> 0, stunned |-> FALSE]

createSummon ==
  [id |-> SummonId, type |-> "summon", faction |-> "player", pos |-> 10,
   hp |-> 20 * HpUnit, maxHp |-> 20 * HpUnit, alive |-> TRUE, invulnMs |-> 0,
   flashMs |-> 0, deathAnimMs |-> 0, animState |-> "idle",
   poisonStacks |-> 0, bleedStacks |-> 0, slowStacks |-> 0,
   slowDuration |-> Undefined, brittle |-> FALSE, brittleDuration |-> Undefined,
   exposed |-> FALSE, exposedDuration |-> Undefined, weakenedMs |-> 0, rootMs |-> 0, packlordMark |-> 0,
   radius |-> 9, speed |-> 112, ownerId |-> PlayerId, damage |-> R(8),
   duration |-> Ms(20000), attackCooldown |-> Ms(1200),
   attackCooldownRemaining |-> 0, attackRange |-> 28,
   vel |-> 0, lifetime |-> 0, piercing |-> FALSE, hitEntities |-> {},
   splashRadius |-> 0, splashDamage |-> R(0),
   tickRate |-> 0, tickTimer |-> 0, tags |-> {}]

Pack(n, kind) == [i \in 1..n |-> createEnemy(i, kind)] \o <<createSummon>>

AllIds == {PlayerId, SummonId} \cup (1..(MaxEnemies + 1))

NoObs ==
  [calls |-> 0, trace |-> <<>>, hits |-> <<>>, died |-> <<>>, spread |-> 0,
   suppressed |-> 0, diverged |-> FALSE, reflects |-> <<>>]

NoEvent == DamageEventOf(MissingId, MissingId, R(0), "none")

(* the loop and the input manager of a game that was just started *)
NoGame ==
  [paused |-> FALSE, keysDown |-> {}, keysJustPressed |-> {}, accumulator |-> 0,
   runTime |-> 0, frames |-> 0, updates |-> 0,
   phase |-> "map", combatActive |-> FALSE, roomClearAwarded |-> FALSE,
   turnPhase |-> "player", enemyTurnTimer |-> 0, killCount |-> 0, xpAwarded |-> {},
   used |-> [key \in {"skill1", "skill2", "click"} |-> [at |-> Undefined, c |-> 0]],
   roomClearTimeout |-> FALSE, encounterHadItemDrop |-> FALSE, runEnds |-> <<>>]

InitCommon ==
  /\ combatLog = <<>>
  /\ triggerChainDepths = <<>>
  /\ deathCauseDoT = 0
  /\ steps = 0
  /\ lastEvent = NoEvent
  /\ lastResult = ZeroResult
  /\ lastCtx = newTriggerContext
  /\ obs = NoObs
  /\ tally = [deaths |-> [id \in AllIds |-> 0], onKill |-> [id \in AllIds |-> 0],
              onDeath |-> [id \in AllIds |-> 0]]
  /\ game = NoGame

(* one enemy, every player profile *)
InitDuel ==
  /\ \E build \in {BareBuild, FullBuild}, armor \in Armors, guard \in Guards :
       player = createPlayer(build, 100, armor, guard)
  /\ \E kind \in EnemyKinds : entities = Pack(1, kind)

(* a pack of enemies around an unarmored player *)
InitPack ==
  /\ \E build \in Builds, hp \in PlayerHps :
       player = createPlayer(build, hp, 0, "none")
  /\ \E n \in {2, 3, MaxEnemies}, kind \in PackKinds : entities = Pack(n, kind)

Init == InitCommon /\ (InitDuel \/ InitPack)

----------------------------------------------------------------------------
(* Actions *)

World ==
  [player |-> player, entities |-> entities, combatLog |-> combatLog,
   triggerChainDepths |-> triggerChainDepths, deathCauseDoT |-> deathCauseDoT,
   ctx |-> newTriggerContext, result |-> ZeroResult, hitTargets |-> <<>>,
   frame |-> NoFrame, obs |-> NoObs, game |-> game]

CountIn(seq, x) == Cardinality({i \in 1..Len(seq) : seq[i] = x})

CountStage(trace, stage, id) ==
  Cardinality({i \in 1..Len(trace) : trace[i].stage = stage /\ trace[i].id = id})

Tally(t, o) ==
  [deaths |-> [id \in AllIds |-> t.deaths[id] + CountIn(o.died, id)],
   onKill |-> [id \in AllIds |-> t.onKill[id] + CountStage(o.trace, "OnKill", id)],
   onDeath |-> [id \in AllIds |-> t.onDeath[id] + CountStage(o.trace, "OnDeath", id)]]

Commit(w) ==
  /\ player' = w.player
  /\ entities' = w.entities
  /\ combatLog' = w.combatLog
  /\ triggerChainDepths' = w.triggerChainDepths
  /\ deathCauseDoT' = w.deathCauseDoT
  /\ lastResult' = w.result
  /\ lastCtx' = w.ctx
  /\ obs' = w.obs
  /\ tally' = Tally(tally, w.obs)
  /\ game' = w.game
  /\ steps' = steps + 1

LastEnemyId ==
  LET ids == {entities[i].id : i \in {j \in 1..Len(entities) :
                                       entities[j].faction = "enemy"}}
  IN  IF ids = {} THEN MissingId ELSE CHOOSE m \in ids : \A n \in ids : n <= m

(* the processDamage calls the rest of the game makes, each without a    *)
(* trigger context: enemy attacks and projectiles, enemy hazard ticks,    *)
(* player skills, summon attacks, and calls whose owner or target id no  *)
(* longer resolves                                                        *)
ExternalEvents ==
  {DamageEventOf(1, PlayerId, R(b), "physical") : b \in {1, 10, 40}}
  \cup {DamageEventOf(1, PlayerId, R(10), "poison")}
  \cup {DamageEventOf(PlayerId, 1, [n |-> b * player.damageScalar, d |-> 100], "physical") :
          b \in {10, 40}}
  \cup {DamageEventOf(PlayerId, LastEnemyId,
                      [n |-> 40 * player.damageScalar, d |-> 100], "physical")}
  \cup {DamageEventOf(SummonId, 1, R(10), "physical")}
  \cup {DamageEventOf(1, SummonId, R(40), "physical")}
  \cup {DamageEventOf(PlayerId, MissingId, R(10), "physical")}
  \cup {DamageEventOf(MissingId, PlayerId, R(10), "physical")}

DamageEvent ==
  /\ steps < MaxSteps
  /\ \E event \in ExternalEvents :
       /\ lastEvent' = event
       /\ Commit(processDamage(event, World, MaxStack))

PoisonTick ==
  /\ steps < MaxSteps
  /\ lastEvent' = NoEvent
  /\ Commit(processPoison(World))

Next == DamageEvent \/ PoisonTick

Spec == Init /\ [][Next]_vars

----------------------------------------------------------------------------
(* The run around the fights: the tail of the enemy-turn tick, summon      *)
(* casts, and the recovery and event nodes                                 *)

maxActiveSummons == 8

ActiveSummons(w) ==
  {i \in 1..Len(w.entities) : /\ w.entities[i].type = "summon"
                               /\ w.entities[i].alive
                               /\ w.entities[i].faction = "player"}

LivingSummons(w) ==
  {i \in 1..Len(w.entities) : w.entities[i].type = "summon" /\ w.entities[i].alive}

(* a fresh entity id *)
NextSummonId(w) ==
  LET used == {w.entities[i].id : i \in 1..Len(w.entities)} \cup {SummonId}
  IN  1 + CHOOSE m \in used : \A n \in used : n <= m

AlphaBond(summon, w) ==
  IF "alpha_bond" \in w.player.passives /\ LivingSummons(w) = {}
  THEN [summon EXCEPT !.hp = (@ * 14) \div 10, !.maxHp = (summon.hp * 14) \div 10,
                      !.damage = RMul(@, 16, 10)]
  ELSE summon

SymbioticGrowth(w) ==
  IF "symbiotic_growth" \in w.player.passives
  THEN [w EXCEPT !.player.maxHp = (100 + (Cardinality(LivingSummons(w)) + 1) * 8) * HpUnit]
  ELSE w

PushSummon(summon, w) ==
  addCombatLog([w EXCEPT !.entities = Append(@, summon)],
               LogEntry("summon", "player", -1, -1, -1))

(* the global cap is not looked at *)
spawnSummon_Uncapped(maxSummons, offset, w) ==
  IF maxSummons /= 0 /\ Cardinality(ActiveSummons(w)) >= maxSummons THEN w
  ELSE PushSummon(
         AlphaBond([createSummon EXCEPT !.id = NextSummonId(w),
                                        !.pos = w.player.pos + offset,
                                        !.hp = 30 * HpUnit, !.maxHp = 30 * HpUnit], w),
         SymbioticGrowth(w))

spawnSummon(maxSummons, offset, w) ==
  IF Cardinality(ActiveSummons(w)) >= maxActiveSummons THEN w
  ELSE IF maxSummons /= 0 /\ Cardinality(ActiveSummons(w)) >= maxSummons THEN w
  ELSE PushSummon(
         AlphaBond([createSummon EXCEPT !.id = NextSummonId(w),
                                        !.pos = w.player.pos + offset,
                                        !.hp = 30 * HpUnit, !.maxHp = 30 * HpUnit], w),
         SymbioticGrowth(w))

applyRecovery(w) ==
  [w EXCEPT !.player.hp =
     Min2(w.player.maxHp,
          @ + MathFloor([n |-> w.player.maxHp * 3, d |-> 10 * HpUnit]) * HpUnit)]

applyEvent(choice, w) ==
  IF choice = 0 THEN w
  ELSE [w EXCEPT !.player.maxHp = @ + 10 * HpUnit, !.player.hp = @ + 10 * HpUnit]

RunBuilds ==
  { Build({"bramble_heart", "living_moss_shield"}, {"thorned_hide"}, 0, 0),
    Build({"venomweave_cloak"},
          {"symbiotic_growth", "alpha_bond", "toxic_proliferation"}, 0, 0) }

RunKinds == {"weak", "poisoned", "saturated", "dying", "fading"}

(* a player between two fights of a run, and enemies of which some are in  *)
(* their death animation                                                   *)
InitRun ==
  /\ InitCommon
  /\ \E build \in RunBuilds, hp \in PlayerHps :
       player = createPlayer(build, hp, 0, "none")
  /\ \E n \in {1, 2}, kind \in RunKinds, summons \in {0, 1} :
       entities = SubSeq(Pack(n, kind), 1, n + summons)

UpdateTimers ==
  /\ steps < MaxSteps
  /\ lastEvent' = NoEvent
  /\ Commit(updateTimers(World))

CleanupEntities ==
  /\ steps < MaxSteps
  /\ lastEvent' = NoEvent
  /\ Commit(cleanupEntities(World))

ProcessRegen ==
  /\ steps < MaxSteps
  /\ lastEvent' = NoEvent
  /\ Commit(processRegen(World))

SpawnSummon ==
  /\ steps < MaxSteps
  /\ lastEvent' = NoEvent
  /\ \E maxSummons \in {0, 2}, offset \in {-40, 40} :
       Commit(spawnSummon(maxSummons, offset, World))

ApplyRecovery ==
  /\ steps < MaxSteps
  /\ lastEvent' = NoEvent
  /\ Commit(applyRecovery(World))

ApplyEvent ==
  /\ steps < MaxSteps
  /\ lastEvent' = NoEvent
  /\ \E choice \in {0, 1} : Commit(applyEvent(choice, World))

NextRun ==
  \/ DamageEvent
  \/ PoisonTick
  \/ UpdateTimers
  \/ CleanupEntities
  \/ ProcessRegen
  \/ SpawnSummon
  \/ ApplyRecovery
  \/ ApplyEvent

SpecRun == InitRun /\ [][NextRun]_vars

----------------------------------------------------------------------------
(* Enemy abilities: telegraph, execute, recovery *)

MaxTicks == 66

ArenaSize == 13 * 32

(* def.damage of the enemy definition *)
EnemyDamage == 8

TelegraphTime(id) ==
  Ms(CASE id = "blink" -> 400 [] id = "charge" -> 500 [] id = "lunge" -> 300
       [] id = "burst_fire" -> 350 [] id = "retreat" -> 250
       [] id = "hazard" -> 400 [] id = "slam" -> 500 [] OTHER -> 300)

ExecuteTime(id) ==
  Ms(CASE id = "blink" -> 200 [] id = "charge" -> 350 [] id = "lunge" -> 200
       [] id = "burst_fire" -> 250 [] id = "retreat" -> 150
       [] id = "hazard" -> 150 [] id = "slam" -> 300 [] OTHER -> 200)

DefaultRecovery == Ms(200)

clampToArena(pos) == Max2(-ArenaSize, Min2(ArenaSize, pos))

(* the player, or a living summon strictly nearer to pos *)
findNearestPlayerAlly(w, pos) ==
  LET nearer == {i \in 1..Len(w.entities) :
                   /\ w.entities[i].type = "summon" /\ w.entities[i].alive
                   /\ w.entities[i].faction = "player"
                   /\ dist(pos, w.entities[i].pos) < dist(pos, w.player.pos)}
  IN  IF nearer = {} THEN PlayerId
      ELSE w.entities[CHOOSE i \in nearer : \A j \in nearer :
             \/ dist(pos, w.entities[i].pos) < dist(pos, w.entities[j].pos)
             \/ (dist(pos, w.entities[i].pos) = dist(pos, w.entities[j].pos) /\ i <= j)].id

startAbility(enemy, abilityId, targetPos, startPos) ==
  [enemy EXCEPT
     !.activeAbility = [id |-> abilityId, phase |-> "telegraph",
                        timer |-> TelegraphTime(abilityId), targetPos |-> targetPos,
                        startPos |-> IF startPos = Undefined THEN enemy.pos ELSE startPos,
                        elapsed |-> 0, effects |-> {}],
     !.animState = "attack"]

Effect(kind, enemyId, w) ==
  putEntity(w, [findEntity(w, enemyId) EXCEPT !.activeAbility.effects = @ \cup {kind}])

(* a processDamage call from outside any handler: no trigger context yet *)
Fresh(w) ==
  [w EXCEPT !.ctx = newTriggerContext, !.result = ZeroResult, !.hitTargets = <<>>,
            !.frame = NoFrame]

(* processDamage from the enemy on every listed living player-side entity *)
(* within the radius                                                       *)
RECURSIVE Strike(_, _, _, _, _, _)
Strike(ids, i, enemyId, radius, base, w) ==
  IF i > Len(ids) THEN w
  ELSE IF /\ findEntity(w, ids[i]).alive /\ findEntity(w, ids[i]).faction = "player"
          /\ dist(findEntity(w, ids[i]).pos, findEntity(w, enemyId).pos) < radius
  THEN Strike(ids, i + 1, enemyId, radius, base,
         processDamage(DamageEventOf(enemyId, ids[i], R(base), "physical"),
                       Fresh(Effect("damage", enemyId, w)), MaxStack))
  ELSE Strike(ids, i + 1, enemyId, radius, base, w)

(* [...state.entities, state.player] *)
Everyone(w) == [i \in 1..Len(w.entities) |-> w.entities[i].id] \o <<PlayerId>>

Nearest(enemyId, w) == <<findNearestPlayerAlly(w, findEntity(w, enemyId).pos)>>

MoveTo(enemyId, pos, w) ==
  Effect("move", enemyId,
         putEntity(w, [findEntity(w, enemyId) EXCEPT !.pos = clampToArena(pos)]))

(* progress = 1 - timer / executeTime, as a fraction *)
Progress(ability) ==
  [n |-> ExecuteTime(ability.id) - ability.timer, d |-> ExecuteTime(ability.id)]

(* start + (end - start) * progress *)
Lerp(enemyId, w) ==
  LET ability == findEntity(w, enemyId).activeAbility
  IN  MoveTo(enemyId,
             ability.startPos
               + MathRound(RMul(Progress(ability),
                                ability.targetPos - ability.startPos, 1)),
             w)

Reached(enemyId, percent, w) ==
  RLeq([n |-> percent, d |-> 100], Progress(findEntity(w, enemyId).activeAbility))

(* the fields given replace those of the entity pushed last *)
Reshape(fields, w) ==
  [w EXCEPT !.entities[Len(w.entities)] =
     [f \in DOMAIN @ |-> IF f \in DOMAIN fields THEN fields[f] ELSE @[f]]]

(* a projectile or hazard entity of the enemy: a burst-fire projectile     *)
(* flying at the nearest ally, or a poison pool                            *)
Push(type, pos, enemyId, w) ==
  Effect(type, enemyId,
         [w EXCEPT !.entities =
            Append(@, [createSummon EXCEPT
              !.id = NextSummonId(w), !.type = type, !.faction = "enemy",
              !.pos = pos, !.hp = HpUnit, !.maxHp = HpUnit, !.ownerId = enemyId,
              !.speed = IF type = "projectile" THEN 190 ELSE 0,
              !.vel = IF type /= "projectile" THEN 0
                      ELSE IF findEntity(w, findNearestPlayerAlly(w, pos)).pos >= pos
                      THEN 190 ELSE -190,
              !.radius = IF type = "projectile" THEN 4 ELSE 40,
              !.damage = IF type = "projectile"
                         THEN R(MathRound([n |-> EnemyDamage * 6, d |-> 10]))
                         ELSE R(4),
              !.lifetime = IF type = "projectile" THEN Ms(2000) ELSE 0,
              !.duration = IF type = "projectile" THEN 0 ELSE Ms(5000),
              !.tickRate = IF type = "projectile" THEN 0 ELSE Ms(500),
              !.tickTimer = IF type = "projectile" THEN 0 ELSE Ms(500),
              !.tags = IF type = "projectile" THEN {"Projectile", "Poison"}
                       ELSE {"Poison", "AOE", "DOT"}])])

Backstab(enemyId, w) ==
  Strike(Nearest(enemyId, w), 1, enemyId, 50, MathRound([n |-> EnemyDamage * 15, d |-> 10]), w)

executeBlink_Unguarded(enemyId, w) ==
  Backstab(enemyId, MoveTo(enemyId, findEntity(w, enemyId).activeAbility.targetPos, w))

executeBlink(enemyId, w) ==
  IF findEntity(w, enemyId).activeAbility.targetPos = Undefined THEN w
  ELSE Backstab(enemyId, MoveTo(enemyId, findEntity(w, enemyId).activeAbility.targetPos, w))

ChargeImpact(enemyId, w) ==
  IF Reached(enemyId, 95, w) THEN Strike(Everyone(w), 1, enemyId, 36, 10, w) ELSE w

executeCharge(enemyId, w) ==
  IF \/ findEntity(w, enemyId).activeAbility.targetPos = Undefined
     \/ findEntity(w, enemyId).activeAbility.startPos = Undefined
  THEN w
  ELSE ChargeImpact(enemyId, Lerp(enemyId, w))

LungeImpact(enemyId, w) ==
  IF Reached(enemyId, 90, w)
  THEN Strike(Nearest(enemyId, w), 1, enemyId, 30,
              MathRound([n |-> EnemyDamage * 13, d |-> 10]), w)
  ELSE w

executeLunge(enemyId, w) ==
  IF \/ findEntity(w, enemyId).activeAbility.targetPos = Undefined
     \/ findEntity(w, enemyId).activeAbility.startPos = Undefined
  THEN w
  ELSE LungeImpact(enemyId, Lerp(enemyId, w))

executeBurstFire(enemyId, w) ==
  Push("projectile", findEntity(w, enemyId).pos, enemyId,
    Push("projectile", findEntity(w, enemyId).pos, enemyId,
      Push("projectile", findEntity(w, enemyId).pos, enemyId, w)))

DropMine(enemyId, w) ==
  IF Reached(enemyId, 95, w)
  THEN Reshape([radius |-> 28, damage |-> R(5), duration |-> Ms(3000),
                tags |-> {"Poison", "AOE"}],
               Push("hazard", findEntity(w, enemyId).activeAbility.startPos, enemyId, w))
  ELSE w

executeRetreat(enemyId, w) ==
  IF \/ findEntity(w, enemyId).activeAbility.targetPos = Undefined
     \/ findEntity(w, enemyId).activeAbility.startPos = Undefined
  THEN w
  ELSE DropMine(enemyId, Lerp(enemyId, w))

executeHazardSpawn(enemyId, w) ==
  IF findEntity(w, enemyId).activeAbility.targetPos = Undefined THEN w
  ELSE Push("hazard", findEntity(w, enemyId).activeAbility.targetPos, enemyId, w)

executeGroundSlam(enemyId, w) == Strike(Everyone(w), 1, enemyId, 48, 12, w)

(* the switch over ability.id *)
ExecuteEffect(id, enemyId, w) ==
  CASE id = "blink" -> executeBlink(enemyId, w)
    [] id = "charge" -> executeCharge(enemyId, w)
    [] id = "lunge" -> executeLunge(enemyId, w)
    [] id = "burst_fire" -> executeBurstFire(enemyId, w)
    [] id = "retreat" -> executeRetreat(enemyId, w)
    [] id = "hazard" -> executeHazardSpawn(enemyId, w)
    [] id = "slam" -> executeGroundSlam(enemyId, w)
    [] OTHER -> w

executeAbility_ZeroExecute(enemyId, w) ==
  ExecuteEffect(findEntity(w, enemyId).activeAbility.id, enemyId,
    putEntity(w, [findEntity(w, enemyId) EXCEPT
      !.activeAbility.phase = "execute",
      !.activeAbility.timer = 0]))

executeAbility(enemyId, w) ==
  ExecuteEffect(findEntity(w, enemyId).activeAbility.id, enemyId,
    putEntity(w, [findEntity(w, enemyId) EXCEPT
      !.activeAbility.phase = "execute",
      !.activeAbility.timer = ExecuteTime(findEntity(w, enemyId).activeAbility.id)]))

Transition_NoWait(enemyId, w) ==
  LET enemy == findEntity(w, enemyId)
  IN  CASE enemy.activeAbility.phase = "telegraph" -> executeAbility(enemyId, w)
        [] enemy.activeAbility.phase = "execute" ->
             putEntity(w, [enemy EXCEPT !.activeAbility.phase = "recovery",
                                        !.activeAbility.timer = DefaultRecovery,
                                        !.animState = "idle"])
        [] enemy.activeAbility.phase = "recovery" ->
             putEntity(w, [enemy EXCEPT !.activeAbility = NoAbility,
                                        !.finished = enemy.activeAbility])
        [] OTHER -> w

(* the phase transition once the timer has run out *)
Transition(enemyId, w) ==
  LET enemy == findEntity(w, enemyId)
  IN  IF enemy.activeAbility.timer > 0 THEN w
      ELSE CASE enemy.activeAbility.phase = "telegraph" -> executeAbility(enemyId, w)
             [] enemy.activeAbility.phase = "execute" ->
                  putEntity(w, [enemy EXCEPT !.activeAbility.phase = "recovery",
                                             !.activeAbility.timer = DefaultRecovery,
                                             !.animState = "idle"])
             [] enemy.activeAbility.phase = "recovery" ->
                  putEntity(w, [enemy EXCEPT !.activeAbility = NoAbility,
                                             !.finished = enemy.activeAbility])
             [] OTHER -> w

updateActiveAbility_RootPauses(enemyId, w) ==
  IF findEntity(w, enemyId).rootMs > 0 THEN w
  ELSE Transition(enemyId,
         putEntity(w, [findEntity(w, enemyId) EXCEPT
           !.activeAbility.timer = @ - TickMs,
           !.activeAbility.elapsed = @ + TickMs]))

updateActiveAbility(enemyId, w) ==
  Transition(enemyId,
    putEntity(w, [findEntity(w, enemyId) EXCEPT
      !.activeAbility.timer = @ - TickMs,
      !.activeAbility.elapsed = @ + TickMs]))

(* what the archetype function of the enemy decides this tick: nothing, or *)
(* one startAbility call followed by return                                *)
Idle == [id |-> "none", targetPos |-> Undefined]

Decisions ==
  {Idle}
  \cup {[id |-> id, targetPos |-> pos] :
          id \in {"blink", "charge", "lunge", "retreat", "hazard"},
          pos \in {Undefined, 30}}
  \cup {[id |-> id, targetPos |-> Undefined] : id \in {"burst_fire", "slam"}}

archetypeAI(enemyId, decision, w) ==
  IF decision.id = "none" THEN Note(w, "AI", enemyId)
  ELSE Note(Note(putEntity(w, startAbility(findEntity(w, enemyId), decision.id,
                                           decision.targetPos, Undefined)),
                 "startAbility", enemyId),
            "AI", enemyId)

(* the body of updateEnemyAI's forEach *)
EnemyTurn_NoReturn(i, decision, w) ==
  IF w.entities[i].type /= "enemy" \/ ~w.entities[i].alive THEN w
  ELSE IF ~findEntity(w, findNearestPlayerAlly(w, w.entities[i].pos)).alive THEN w
  ELSE archetypeAI(w.entities[i].id, decision,
         IF w.entities[i].activeAbility.id /= "none"
         THEN updateActiveAbility(w.entities[i].id, w) ELSE w)

EnemyTurn(i, decision, w) ==
  IF w.entities[i].type /= "enemy" \/ ~w.entities[i].alive THEN w
  ELSE IF w.entities[i].activeAbility.id /= "none"
  THEN updateActiveAbility(w.entities[i].id, w)
  ELSE IF ~findEntity(w, findNearestPlayerAlly(w, w.entities[i].pos)).alive THEN w
  ELSE archetypeAI(w.entities[i].id, decision, w)

RECURSIVE EnemyLoop(_, _, _, _)
EnemyLoop(i, n, decision, w) ==
  IF i > n THEN w
  ELSE EnemyLoop(i + 1, n, decision,
         EnemyTurn(i, IF i \in DOMAIN decision THEN decision[i] ELSE Idle, w))

updateEnemyAI(decision, w) == EnemyLoop(1, Len(w.entities), decision, w)

(* one enemy facing the player, with or without a summon at its side *)
InitAbility ==
  /\ InitCommon
  /\ player = createPlayer(Build({"bramble_heart"}, {"thorned_hide"}, 0, 0),
                           100, 0, "none")
  /\ \E summons \in {0, 1} :
       entities = SubSeq(Pack(1, "healthy"), 1, 1 + summons)

UpdateEnemyAI ==
  /\ steps < MaxTicks
  /\ lastEvent' = NoEvent
  /\ \E decision \in [{i \in 1..Len(entities) : entities[i].type = "enemy"}
                         -> Decisions] :
       Commit(updateEnemyAI(decision, World))

SpecAbility == InitAbility /\ [][UpdateEnemyAI]_vars

----------------------------------------------------------------------------
(* An ability in flight while the rest of the game acts on the enemy: it   *)
(* is hit, slowed, rooted, stunned, or its target dies                     *)

MaxInterruptTicks == 45

applyStun(target) == [target EXCEPT !.stunned = TRUE]

InFlight(i) ==
  /\ entities[i].type = "enemy" /\ entities[i].alive
  /\ entities[i].activeAbility.id /= "none"

(* a step of the game between two updateEnemyAI calls *)
Between(w) ==
  /\ player' = w.player
  /\ entities' = w.entities
  /\ combatLog' = w.combatLog
  /\ triggerChainDepths' = w.triggerChainDepths
  /\ deathCauseDoT' = w.deathCauseDoT
  /\ lastResult' = w.result
  /\ lastCtx' = w.ctx
  /\ obs' = w.obs
  /\ tally' = Tally(tally, w.obs)
  /\ game' = w.game
  /\ lastEvent' = NoEvent
  /\ UNCHANGED steps

AITick ==
  /\ steps < MaxInterruptTicks
  /\ lastEvent' = NoEvent
  /\ \E decision \in [{i \in 1..Len(entities) : entities[i].type = "enemy"}
                         -> {Idle, [id |-> "lunge", targetPos |-> Undefined]}] :
       Commit(updateEnemyAI(decision, World))

(* a skill of the player hits the enemy for 25 *)
Hit ==
  \E i \in 1..Len(entities) :
    /\ InFlight(i)
    /\ Between(processDamage(DamageEventOf(PlayerId, entities[i].id, R(25), "physical"),
                             World, MaxStack))

(* Debilitating Presence's applySlow(target, 1, 4000), once *)
Slow ==
  \E i \in 1..Len(entities) :
    /\ InFlight(i) /\ entities[i].slowDuration = Undefined
    /\ Between(putEntity(World, applySlow(entities[i], 1, Ms(4000))))

(* a debuff hazard's _rootMs = 300 *)
Root ==
  \E i \in 1..Len(entities) :
    /\ InFlight(i) /\ entities[i].rootMs = 0
    /\ Between(putEntity(World, [entities[i] EXCEPT !.rootMs = Ms(300)]))

Stun ==
  \E i \in 1..Len(entities) :
    /\ InFlight(i) /\ ~entities[i].stunned
    /\ Between(putEntity(World, applyStun(entities[i])))

(* the enemy's target, the player, dies of something else *)
TargetDies ==
  /\ \E i \in 1..Len(entities) : InFlight(i)
  /\ player.alive
  /\ Between([World EXCEPT !.player = markDead([@ EXCEPT !.hp = 0])])

NextInterrupt == AITick \/ Hit \/ Slow \/ Root \/ Stun \/ TargetDies

InitInterrupt ==
  /\ InitCommon
  /\ player = createPlayer(BareBuild, 100, 0, "none")
  /\ entities = Pack(1, "healthy")

SpecInterrupt == InitInterrupt /\ [][NextInterrupt]_vars

----------------------------------------------------------------------------
(* A long fight: damage events arriving when the combat log is nearly full *)

(* the log after n hits of damage 1..n on the player *)
LogOf(n) == [i \in 1..n |-> LogEntry("damage", "Enemy", 1, "Player", i)]

InitLog ==
  /\ \E n \in {0} \cup ((maxCombatLog - 5)..maxCombatLog) : combatLog = LogOf(n)
  /\ triggerChainDepths = <<>>
  /\ deathCauseDoT = 0
  /\ steps = 0
  /\ lastEvent = NoEvent
  /\ lastResult = ZeroResult
  /\ lastCtx = newTriggerContext
  /\ obs = NoObs
  /\ tally = [deaths |-> [id \in AllIds |-> 0], onKill |-> [id \in AllIds |-> 0],
              onDeath |-> [id \in AllIds |-> 0]]
  /\ game = NoGame
  /\ \E build \in {BareBuild, FullBuild} : player = createPlayer(build, 100, 0, "none")
  /\ \E kind \in {"weak", "healthy"} : entities = Pack(1, kind)

SpecLog == InitLog /\ [][DamageEvent]_vars

----------------------------------------------------------------------------
(* The player's turn: skills, movement, auto-attack *)

minCooldown == Ms(400)

enemyTurnDuration == Ms(350)

playerStepDistance == 32

autoAttackCooldown == Ms(600)

SkillCooldowns == {Ms(300), Ms(500), Ms(8000)}

(* player.skills: a summon skill and fungal_link, cooldowns as defined *)
Skills(c1, c2) ==
  <<[id |-> "summon_wolf", summon |-> TRUE, cooldown |-> c1, cooldownRemaining |-> 0],
    [id |-> "fungal_link", summon |-> FALSE, cooldown |-> c2, cooldownRemaining |-> 0]>>

(* skill.cooldownRemaining = Math.max(HARD_CAPS.minCooldown, def.cooldown) *)
StartCooldown(i, w) ==
  [w EXCEPT !.player.skills[i].cooldownRemaining =
              Max2(minCooldown, w.player.skills[i].cooldown)]

(* Mycorrhizal Bond: flag after a summon skill, spent on the next other skill *)
MycorrhizalBond(i, w) ==
  IF w.player.skills[i].summon
  THEN IF "mycorrhizal_bond" \in w.player.passives
       THEN [w EXCEPT !.player.nextCooldownReduction = 30] ELSE w
  ELSE IF w.player.nextCooldownReduction /= 0
  THEN [w EXCEPT !.player.skills[i].cooldownRemaining =
                   (@ * (100 - w.player.nextCooldownReduction)) \div 100,
                 !.player.nextCooldownReduction = 0]
  ELSE w

SkillEffect(i, offset, w) ==
  IF w.player.skills[i].summon THEN spawnSummon(2, offset, w)
  ELSE addCombatLog([w EXCEPT !.player.fungalLinkMs = Ms(6000)],
                    LogEntry("heal", "player", -1, -1, -1))

useSkill(i, offset, w) ==
  addCombatLog(
    SkillEffect(i, offset,
      [MycorrhizalBond(i, StartCooldown(i, w)) EXCEPT !.player.animState = "attack"]),
    LogEntry("trigger", "player", -1, -1, -1))

beginEnemyTurn(w) ==
  addCombatLog([w EXCEPT !.player.pos = clampToArena(@),
                         !.game.turnPhase = "enemy",
                         !.game.enemyTurnTimer = enemyTurnDuration],
               LogEntry("trigger", "system", -1, -1, -1))

ActionKey(i) == IF i = 1 THEN "skill1" ELSE "skill2"

(* observation: the run time of the last use of an action and the cooldown *)
(* it was left with                                                        *)
LastUse(key, c, w) == [w EXCEPT !.game.used[key] = [at |-> w.game.runTime, c |-> c]]

CoolDown(i, w) ==
  [w EXCEPT !.player.skills[i].cooldownRemaining = Max2(0, @ - enemyTurnDuration)]

AutoAttack(key, w) ==
  IF key = "click" /\ Max2(0, w.player.autoAttackTimer - enemyTurnDuration) <= 0
  THEN beginEnemyTurn(
         [LastUse("click", autoAttackCooldown, w) EXCEPT
                   !.player.autoAttackTimer = autoAttackCooldown,
                   !.player.animState = "attack",
                   !.entities =
                      Append(@, [createSummon EXCEPT
                                   !.id = NextSummonId(w), !.type = "projectile",
                                   !.pos = w.player.pos + 15,
                                   !.hp = HpUnit, !.maxHp = HpUnit,
                                   !.radius = 4, !.speed = 300, !.vel = 300,
                                   !.damage = [n |-> 8 * w.player.damageScalar, d |-> 100],
                                   !.lifetime = Ms(1200),
                                   !.tags = {"Projectile", "Physical"}])])
  ELSE [w EXCEPT !.player.autoAttackTimer = Max2(0, @ - enemyTurnDuration)]

(* Wild Stride Boots leave a damaging trail where the player stood *)
spawnTrailIfNeeded(pos, w) ==
  IF "wild_stride_boots" \notin w.player.items THEN w
  ELSE [w EXCEPT !.entities =
          Append(@, [createSummon EXCEPT
                       !.id = NextSummonId(w), !.type = "hazard", !.pos = pos,
                       !.hp = HpUnit, !.maxHp = HpUnit, !.radius = 16, !.speed = 0,
                       !.damage = R(3), !.tickRate = Ms(400), !.tickTimer = 0,
                       !.duration = Ms(1300), !.tags = {"DOT", "Physical"}])]

Move(key, w) ==
  IF key \in {"moveLeft", "moveRight"}
  THEN beginEnemyTurn(
         spawnTrailIfNeeded(w.player.pos,
           [w EXCEPT !.player.pos = IF key = "moveLeft" THEN @ - playerStepDistance
                                    ELSE @ + playerStepDistance,
                     !.player.animState = "move"]))
  ELSE AutoAttack(key, [w EXCEPT !.player.pos = clampToArena(@)])

(* the skill loop: each skill cools down, the first pressed and ready one  *)
(* is used and ends the turn                                               *)
RECURSIVE SkillLoop(_, _, _, _)
SkillLoop(i, key, offset, w) ==
  IF i > Len(w.player.skills) THEN Move(key, w)
  ELSE IF key = ActionKey(i) /\ CoolDown(i, w).player.skills[i].cooldownRemaining <= 0
  THEN LET used == useSkill(i, offset, Note(CoolDown(i, w), "useSkill", i))
       IN  beginEnemyTurn(LastUse(ActionKey(i), used.player.skills[i].cooldownRemaining,
                                  used))
  ELSE SkillLoop(i + 1, key, offset, CoolDown(i, w))

tryPlayerTurnAction(key, offset, w) == SkillLoop(1, key, offset, w)


----------------------------------------------------------------------------
(* The game loop, the pause key and the pause button, outside combat *)

MaxFrames == 7

togglePause(g) == [g EXCEPT !.paused = ~@]

(* Game.update in a phase other than combat *)
update(g) ==
  [(IF "Escape" \in g.keysJustPressed THEN togglePause(g) ELSE g) EXCEPT
     !.runTime = @ + TickMs, !.keysJustPressed = {}, !.updates = @ + 1]

(* while (accumulator >= tickRate) { updateFn(); accumulator -= tickRate } *)
RECURSIVE Ticks(_)
Ticks(g) ==
  IF g.accumulator >= TickMs
  THEN Ticks([update(g) EXCEPT !.accumulator = @ - TickMs])
  ELSE g

(* the animation-frame callback, game speed 1.0 *)
loop(frameTime, g) ==
  IF ~g.paused
  THEN Ticks([g EXCEPT !.accumulator = @ + Min2(frameTime, Ms(100)),
                       !.frames = @ + 1, !.updates = 0])
  ELSE [g EXCEPT !.frames = @ + 1, !.updates = 0]

onKeyDown(code, g) ==
  [g EXCEPT !.keysJustPressed = IF code \in g.keysDown THEN @ ELSE @ \cup {code},
            !.keysDown = @ \cup {code}]

onKeyUp(code, g) == [g EXCEPT !.keysDown = @ \ {code}]

InitPause ==
  /\ InitCommon
  /\ player = createPlayer(BareBuild, 100, 0, "none")
  /\ entities = <<>>

GameStep(g) ==
  /\ steps < MaxFrames
  /\ game' = g
  /\ steps' = steps + 1
  /\ UNCHANGED <<player, entities, combatLog, triggerChainDepths, deathCauseDoT,
                 lastEvent, lastResult, lastCtx, obs, tally>>

Frame == \E frameTime \in {Ms(10), TickMs, Ms(40), Ms(250)} : GameStep(loop(frameTime, game))

KeyDown == \E code \in {"Escape", "KeyW"} : GameStep(onKeyDown(code, game))

KeyUp == \E code \in {"Escape", "KeyW"} : GameStep(onKeyUp(code, game))

PauseButton == GameStep(togglePause(game))

NextPause == Frame \/ KeyDown \/ KeyUp \/ PauseButton

SpecPause == InitPause /\ [][NextPause]_vars

----------------------------------------------------------------------------
(* Bosses: phase selection, one ability of the phase, basic attack *)

(* boss.phases[k].abilities: cooldown in timer units, effect by its kind *)
PhaseAbilities(k) ==
  CASE k = 0 -> <<[id |-> "sweep", cooldown |-> Ms(3000), effect |-> "cone"],
                  [id |-> "barrage", cooldown |-> Ms(5000), effect |-> "projectile"]>>
    [] k = 1 -> <<[id |-> "spore_rain", cooldown |-> Ms(6000), effect |-> "rain"],
                  [id |-> "cone_breath", cooldown |-> Ms(4000), effect |-> "cone"]>>
    [] OTHER -> <<[id |-> "nova", cooldown |-> Ms(8000), effect |-> "ring"],
                  [id |-> "summon_adds", cooldown |-> Ms(9000), effect |-> "summon"]>>

CooldownKeys ==
  {"basic_attack", "sweep", "barrage", "spore_rain", "cone_breath", "nova",
   "summon_adds"}

(* an enemy whose def.id starts with boss_: thresholds are the             *)
(* phases[i].hpThreshold of its boss definition, in percent                *)
createBoss(id, hp, pos, thresholds) ==
  [createEnemy(id, "healthy") EXCEPT !.hp = hp * HpUnit, !.pos = pos]
  @@ [thresholds |-> thresholds, currentPhase |-> 0,
      abilityCooldowns |-> [k \in CooldownKeys |-> 0]]

(* for (i = phases.length - 1; i >= 0; i--) if (hpRatio <= threshold) currentPhase = i *)
RECURSIVE ScanPhases(_, _, _, _, _)
ScanPhases(thresholds, i, hp, maxHp, currentPhase) ==
  IF i < 1 THEN currentPhase
  ELSE ScanPhases(thresholds, i - 1, hp, maxHp,
                  IF hp * 100 <= thresholds[i] * maxHp THEN i - 1 ELSE currentPhase)

selectPhase_FirstInScan(enemy) ==
  LET hit == {i \in 1..Len(enemy.thresholds) :
                enemy.hp * 100 <= enemy.thresholds[i] * enemy.maxHp}
  IN  IF hit = {} THEN 0 ELSE (CHOOSE i \in hit : \A j \in hit : j <= i) - 1

selectPhase(enemy) ==
  ScanPhases(enemy.thresholds, Len(enemy.thresholds), enemy.hp, enemy.maxHp, 0)

(* abilityCooldowns.forEach: v > 0 => v - dt *)
tickCooldowns(enemy) ==
  [enemy EXCEPT !.abilityCooldowns =
     [k \in CooldownKeys |-> IF @[k] > 0 THEN @[k] - TickMs ELSE @[k]]]

(* enemy.speed * dt, towards the target *)
BossMove(enemyId, targetId, w) ==
  LET enemy == findEntity(w, enemyId)
      target == findEntity(w, targetId)
  IN  IF dist(enemy.pos, target.pos) > 60
      THEN putEntity(w, [enemy EXCEPT
             !.pos = IF target.pos >= @ THEN @ + 1 ELSE @ - 1,
             !.animState = "move"])
      ELSE w

RECURSIVE Spawn(_, _, _, _, _, _)
Spawn(n, type, pos, fields, enemyId, w) ==
  IF n <= 0 THEN w
  ELSE Spawn(n - 1, type, pos, fields, enemyId,
         IF type = "enemy"
         THEN [w EXCEPT !.entities =
                 Append(@, [createEnemy(NextSummonId(w), "healthy") EXCEPT
                              !.pos = pos, !.hp = 15 * HpUnit, !.maxHp = 15 * HpUnit,
                              !.radius = 8])]
         ELSE Reshape(fields, Push(type, pos, enemyId, w)))

executeBossAbility(enemyId, ability, targetId, side, w) ==
  CASE ability.effect = "projectile" ->
         Spawn(3, "projectile", findEntity(w, enemyId).pos,
               [radius |-> 6, speed |-> 180, damage |-> R(8), lifetime |-> Ms(2500),
                vel |-> (IF findEntity(w, targetId).pos >= findEntity(w, enemyId).pos
                         THEN 180 ELSE -180),
                tags |-> {"Projectile"}],
               enemyId, w)
    [] ability.effect = "cone" -> Strike(Everyone(w), 1, enemyId, 60, 15, w)
    [] ability.effect = "rain" ->
         Spawn(Min2(3, maxSpawnedFromEvent), "hazard",
               findEntity(w, targetId).pos + side * 40,
               [damage |-> R(6), duration |-> Ms(4000), tags |-> {"Poison", "AOE"}],
               enemyId, w)
    [] ability.effect = "summon" ->
         Spawn(Min2(2, maxSpawnedFromEvent), "enemy",
               findEntity(w, enemyId).pos + side * 60, <<>>, enemyId, w)
    [] ability.effect = "ring" ->
         Spawn(1, "hazard", findEntity(w, enemyId).pos,
               [radius |-> 100, damage |-> R(14), duration |-> Ms(1500),
                tickRate |-> Ms(300), tickTimer |-> Ms(300),
                tags |-> {"Poison", "AOE"}],
               enemyId, w)
    [] OTHER -> w

(* the first ability of the phase whose cooldown is <= 0, then break *)
RECURSIVE BossCast(_, _, _, _, _, _)
BossCast(abilities, i, enemyId, targetId, side, w) ==
  IF i > Len(abilities) THEN w
  ELSE IF findEntity(w, enemyId).abilityCooldowns[abilities[i].id] <= 0
  THEN executeBossAbility(enemyId, abilities[i], targetId, side,
         Note(putEntity(w, [findEntity(w, enemyId) EXCEPT
                !.abilityCooldowns[abilities[i].id] = abilities[i].cooldown]),
              abilities[i].id, enemyId))
  ELSE BossCast(abilities, i + 1, enemyId, targetId, side, w)

(* d is the distance measured before the move *)
BossBasicAttack(enemyId, targetId, d, w) ==
  IF d <= 30 /\ findEntity(w, enemyId).abilityCooldowns["basic_attack"] <= 0
  THEN processDamage(
         DamageEventOf(enemyId, targetId, R(EnemyDamage), "physical"),
         Fresh(Note(putEntity(w, [findEntity(w, enemyId) EXCEPT
                      !.abilityCooldowns["basic_attack"] = Ms(1000)]),
                    "basic_attack", enemyId)),
         MaxStack)
  ELSE w

BossPhase(enemyId, w) ==
  putEntity(w, [findEntity(w, enemyId) EXCEPT !.currentPhase = selectPhase(findEntity(w, enemyId))])

BossClamp(enemyId, w) ==
  putEntity(w, [findEntity(w, enemyId) EXCEPT !.pos = clampToArena(@)])

updateBossPhase(enemyId, targetId, side, w) ==
  BossClamp(enemyId,
    BossBasicAttack(enemyId, targetId,
      dist(findEntity(w, enemyId).pos, findEntity(w, targetId).pos),
      BossCast(PhaseAbilities(selectPhase(findEntity(w, enemyId))), 1,
               enemyId, targetId, side,
               BossMove(enemyId, targetId, BossPhase(enemyId, w)))))

IsBoss(e) == "thresholds" \in DOMAIN e

(* updateEnemyAI's forEach body for an enemy whose def.id starts with boss_ *)
BossTurn(i, side, w) ==
  IF ~w.entities[i].alive THEN w
  ELSE IF ~findEntity(w, findNearestPlayerAlly(w, w.entities[i].pos)).alive
  THEN putEntity(w, tickCooldowns(w.entities[i]))
  ELSE updateBossPhase(w.entities[i].id,
                       findNearestPlayerAlly(w, w.entities[i].pos), side,
                       putEntity(w, tickCooldowns(w.entities[i])))

RECURSIVE BossLoop(_, _, _, _, _)
BossLoop(i, n, side, decision, w) ==
  IF i > n THEN w
  ELSE BossLoop(i + 1, n, side, decision,
         IF IsBoss(w.entities[i]) THEN BossTurn(i, side, w)
         ELSE EnemyTurn(i, IF i \in DOMAIN decision THEN decision[i] ELSE Idle, w))

MaxBossTicks == 3

Thresholds ==
  {<<a>> : a \in {30, 60, 100}}
  \cup {<<a, b>> : a \in {30, 60, 100}, b \in {30, 60, 100}}
  \cup {<<a, b, c>> : a \in {30, 60, 100}, b \in {30, 60, 100}, c \in {30, 60, 100}}

(* a boss at some health, near or far, with any list of phase thresholds *)
InitBoss ==
  /\ InitCommon
  /\ \E build \in {BareBuild, Build({"bramble_heart"}, {"thorned_hide"}, 0, 0)} :
       player = createPlayer(build, 100, 0, "none")
  /\ \E hp \in {40, 24, 20, 12, 4}, pos \in {10, 100}, thresholds \in Thresholds :
       entities = <<createBoss(1, hp, pos, thresholds)>>

UpdateBoss ==
  /\ steps < MaxBossTicks
  /\ lastEvent' = NoEvent
  /\ \E side \in {-1, 1},
        decision \in [{i \in 1..Len(entities) :
                         entities[i].type = "enemy" /\ ~IsBoss(entities[i])}
                        -> {Idle, [id |-> "slam", targetPos |-> Undefined]}] :
       Commit(BossLoop(1, Len(entities), side, decision, World))

SpecBoss == InitBoss /\ [][UpdateBoss]_vars

----------------------------------------------------------------------------
(* The combat tick: summons, projectiles, hazards, kills, room clear *)

(* distance covered in one tick at a speed in units per second *)
StepOf(speed) ==
  IF speed >= 0 THEN (speed * TickMs) \div Ms(1000)
  ELSE 0 - (((0 - speed) * TickMs) \div Ms(1000))

Toward(from, to, speed) == IF to >= from THEN from + StepOf(speed) ELSE from - StepOf(speed)

findNearestEnemy(w, pos) ==
  LET living == {i \in 1..Len(w.entities) :
                   w.entities[i].type = "enemy" /\ w.entities[i].alive}
  IN  IF living = {} THEN MissingId
      ELSE w.entities[CHOOSE i \in living : \A j \in living :
             \/ dist(pos, w.entities[i].pos) < dist(pos, w.entities[j].pos)
             \/ (dist(pos, w.entities[i].pos) = dist(pos, w.entities[j].pos) /\ i <= j)].id

(* Pack Tactics and Alpha Bond, in hundredths *)
damageMult(w) ==
  100 + (IF "pack_tactics" \in w.player.passives /\ Cardinality(ActiveSummons(w)) >= 2
         THEN 20 ELSE 0)
      + (IF "alpha_bond" \in w.player.passives /\ Cardinality(ActiveSummons(w)) = 1
         THEN 60 ELSE 0)

SummonAttack(summon, enemyId, w) ==
  IF summon.attackCooldownRemaining - TickMs <= 0
  THEN processDamage(
         DamageEventOf(summon.id, enemyId,
                       RMul(summon.damage, damageMult(w), 100), "physical"),
         Fresh(Note(putEntity(w, [summon EXCEPT
                      !.attackCooldownRemaining = summon.attackCooldown,
                      !.animState = "attack"]), "summon", summon.id)),
         MaxStack)
  ELSE putEntity(w, [summon EXCEPT !.attackCooldownRemaining = @ - TickMs,
                                   !.animState = "idle"])

SummonAct(summon, enemyId, w) ==
  IF enemyId /= MissingId
  THEN IF dist(summon.pos, findEntity(w, enemyId).pos) > summon.attackRange
       THEN putEntity(w, [summon EXCEPT
              !.pos = Toward(@, findEntity(w, enemyId).pos, summon.speed),
              !.animState = "move"])
       ELSE SummonAttack(summon, enemyId, w)
  ELSE IF dist(summon.pos, w.player.pos) > 60
  THEN putEntity(w, [summon EXCEPT !.pos = Toward(@, w.player.pos, summon.speed),
                                   !.animState = "move"])
  ELSE putEntity(w, [summon EXCEPT !.animState = "idle"])

SummonTurn(i, w) ==
  IF w.entities[i].type /= "summon" \/ ~w.entities[i].alive THEN w
  ELSE IF w.entities[i].duration - TickMs <= 0
  THEN Note(putEntity(w, [w.entities[i] EXCEPT !.duration = @ - TickMs,
                                                !.alive = FALSE]),
            "expired", w.entities[i].id)
  ELSE SummonAct([w.entities[i] EXCEPT
                    !.duration = @ - TickMs,
                    !.speed = IF "alpha_bond" \in w.player.passives
                                 /\ Cardinality(ActiveSummons(w)) = 1
                              THEN 168 ELSE @],
                 findNearestEnemy(w, w.entities[i].pos), w)

Targets_Rehit(proj, w) ==
  LET sel == SelectSeq(w.entities, LAMBDA t :
               /\ t.alive /\ t.faction /= proj.faction
               /\ t.type \notin {"projectile", "hazard"})
  IN  [k \in 1..Len(sel) |-> sel[k].id]
      \o (IF proj.faction = "enemy" /\ w.player.alive /\ PlayerId \notin proj.hitEntities
          THEN <<PlayerId>> ELSE <<>>)

(* the entities a projectile can hit, the player last *)
Targets(proj, w) ==
  LET sel == SelectSeq(w.entities, LAMBDA t :
               /\ t.alive /\ t.faction /= proj.faction
               /\ t.id \notin proj.hitEntities
               /\ t.type \notin {"projectile", "hazard"})
  IN  [k \in 1..Len(sel) |-> sel[k].id]
      \o (IF proj.faction = "enemy" /\ w.player.alive /\ PlayerId \notin proj.hitEntities
          THEN <<PlayerId>> ELSE <<>>)

ProjectileHit(projId, targetId, w) ==
  processDamage(
    DamageEventOf(findEntity(w, projId).ownerId, targetId,
                  findEntity(w, projId).damage, "physical"),
    Fresh(NoteBy(putEntity(w, [findEntity(w, projId) EXCEPT
                 !.hitEntities = @ \cup {targetId}]), "projectile", targetId, projId)),
    MaxStack)

Spent(projId, w) == putEntity(w, [findEntity(w, projId) EXCEPT !.alive = FALSE])

RECURSIVE HitLoop(_, _, _, _)
HitLoop(targets, k, projId, w) ==
  IF k > Len(targets) THEN w
  ELSE IF dist(findEntity(w, projId).pos, findEntity(w, targets[k]).pos)
          < findEntity(w, projId).radius + findEntity(w, targets[k]).radius
  THEN IF findEntity(w, projId).piercing
       THEN HitLoop(targets, k + 1, projId, ProjectileHit(projId, targets[k], w))
       ELSE Spent(projId, ProjectileHit(projId, targets[k], w))
  ELSE HitLoop(targets, k + 1, projId, w)

(* no projectile of the model carries an impact pool *)
Flown(proj) == [proj EXCEPT !.pos = @ + StepOf(proj.vel), !.lifetime = @ - TickMs]

SplashHit(proj, targetId, w) ==
  processDamage(DamageEventOf(proj.ownerId, targetId, proj.splashDamage, "physical"),
                Fresh(NoteBy(w, "splash", targetId, proj.id)), MaxStack)

(* splash damage on expire: every living enemy-faction entity inside the radius *)
RECURSIVE Splash(_, _, _, _, _)
Splash(proj, k, n, hitTargets, w) ==
  IF k > n
  THEN IF hitTargets /= <<>> /\ findEntity(w, proj.ownerId).type = "player"
       THEN processOnAreaDamageTriggers(proj.ownerId, hitTargets, proj.splashDamage, w)
       ELSE w
  ELSE IF /\ w.entities[k].alive /\ w.entities[k].faction = "enemy"
          /\ dist(proj.pos, w.entities[k].pos) < proj.splashRadius
  THEN Splash(proj, k + 1, n, Append(hitTargets, w.entities[k].id),
              SplashHit(proj, w.entities[k].id, w))
  ELSE Splash(proj, k + 1, n, hitTargets, w)

Expire(proj, w) ==
  IF proj.splashRadius /= 0 /\ proj.splashDamage.n /= 0
  THEN Splash(proj, 1, Len(w.entities), <<>>,
              Note(putEntity(w, [proj EXCEPT !.alive = FALSE]), "expired", proj.id))
  ELSE Note(putEntity(w, [proj EXCEPT !.alive = FALSE]), "expired", proj.id)

ProjectileTurn(i, w) ==
  IF w.entities[i].type /= "projectile" \/ ~w.entities[i].alive THEN w
  ELSE IF Flown(w.entities[i]).lifetime <= 0
  THEN Expire(Flown(w.entities[i]), w)
  ELSE HitLoop(Targets(Flown(w.entities[i]), w), 1, w.entities[i].id,
               putEntity(w, Flown(w.entities[i])))

HazardStrike(hazard, targetId, w) ==
  processDamage(DamageEventOf(hazard.ownerId, targetId, hazard.damage, "poison"),
                Fresh(NoteBy(w, "hazard", targetId, hazard.id)), MaxStack)

RECURSIVE HazardDamage(_, _, _, _)
HazardDamage(hazard, k, n, w) ==
  IF k > n
  THEN IF /\ hazard.faction /= "player" /\ w.player.alive
          /\ dist(w.player.pos, hazard.pos) < hazard.radius
       THEN HazardStrike(hazard, PlayerId, w)
       ELSE w
  ELSE IF /\ w.entities[k].alive
          /\ w.entities[k].faction = (IF hazard.faction = "player" THEN "enemy" ELSE "player")
          /\ dist(w.entities[k].pos, hazard.pos) < hazard.radius
  THEN HazardDamage(hazard, k + 1, n,
         HazardStrike(hazard, w.entities[k].id,
           IF "Debuff" \in hazard.tags /\ w.entities[k].type = "enemy"
           THEN putEntity(w, [w.entities[k] EXCEPT !.rootMs = Ms(300)]) ELSE w))
  ELSE HazardDamage(hazard, k + 1, n, w)

HazardHeal(hazard, w) ==
  [w EXCEPT
     !.player.hp = IF w.player.alive /\ dist(w.player.pos, hazard.pos) < hazard.radius
                   THEN Min2(w.player.maxHp, @ + 2 * HpUnit) ELSE @,
     !.entities = [k \in 1..Len(@) |->
        IF @[k].type = "summon" /\ @[k].alive /\ dist(@[k].pos, hazard.pos) < hazard.radius
        THEN [@[k] EXCEPT !.hp = Min2(@[k].maxHp, @[k].hp + 2 * HpUnit)]
        ELSE IF /\ @[k].type = "enemy" /\ @[k].alive /\ "Debuff" \in hazard.tags
                /\ dist(@[k].pos, hazard.pos) < hazard.radius
        THEN [@[k] EXCEPT !.weakenedMs = Ms(1000)]
        ELSE @[k]]]

HazardTick(hazard, w) ==
  IF hazard.faction = "player" /\ "Heal" \in hazard.tags
  THEN HazardHeal(hazard, Note(putEntity(w, hazard), "hazardTick", hazard.id))
  ELSE HazardDamage(hazard, 1, Len(w.entities),
                    Note(putEntity(w, hazard), "hazardTick", hazard.id))

(* the tick effect is applied before the duration is looked at *)
HazardTurn_TickFirst(i, w) ==
  IF w.entities[i].type /= "hazard" \/ ~w.entities[i].alive THEN w
  ELSE IF w.entities[i].tickTimer - TickMs <= 0
  THEN HazardTick([w.entities[i] EXCEPT
                     !.duration = @ - TickMs,
                     !.alive = w.entities[i].duration - TickMs > 0,
                     !.tickTimer = w.entities[i].tickRate], w)
  ELSE putEntity(w, [w.entities[i] EXCEPT !.duration = @ - TickMs,
                                          !.alive = w.entities[i].duration - TickMs > 0,
                                          !.tickTimer = @ - TickMs])

HazardTurn(i, w) ==
  IF w.entities[i].type /= "hazard" \/ ~w.entities[i].alive THEN w
  ELSE IF w.entities[i].duration - TickMs <= 0
  THEN Note(putEntity(w, [w.entities[i] EXCEPT !.duration = @ - TickMs,
                                                !.alive = FALSE]),
            "expired", w.entities[i].id)
  ELSE IF w.entities[i].tickTimer - TickMs <= 0
  THEN HazardTick([w.entities[i] EXCEPT !.duration = @ - TickMs,
                                        !.tickTimer = w.entities[i].tickRate], w)
  ELSE putEntity(w, [w.entities[i] EXCEPT !.duration = @ - TickMs,
                                          !.tickTimer = @ - TickMs])

RECURSIVE ForEach(_, _, _, _)
ForEach(kind, i, n, w) ==
  IF i > n THEN w
  ELSE ForEach(kind, i + 1, n,
         CASE kind = "summon" -> SummonTurn(i, w)
           [] kind = "projectile" -> ProjectileTurn(i, w)
           [] OTHER -> HazardTurn(i, w))

updateSummons(w) == ForEach("summon", 1, Len(w.entities), w)

updateProjectiles(w) == ForEach("projectile", 1, Len(w.entities), w)

updateHazards(w) == ForEach("hazard", 1, Len(w.entities), w)

(* enemies that finished dying count once: XP, drops and loot are not modelled *)
processKills(w) ==
  LET dead == {w.entities[i].id : i \in {j \in 1..Len(w.entities) :
                 /\ w.entities[j].type = "enemy" /\ ~w.entities[j].alive
                 /\ w.entities[j].deathAnimMs > 0
                 /\ w.entities[j].deathAnimMs <= Ms(500)}}
  IN  [w EXCEPT !.game.killCount = @ + Cardinality(dead \ w.game.xpAwarded),
                !.game.xpAwarded = @ \cup dead]

checkRoomClear(w) ==
  IF /\ \A i \in 1..Len(w.entities) :
          ~(w.entities[i].type = "enemy" /\ w.entities[i].alive)
     /\ ~w.game.roomClearAwarded /\ w.game.combatActive
  THEN [w EXCEPT !.game.roomClearAwarded = TRUE, !.game.combatActive = FALSE,
                 !.game.roomClearTimeout = TRUE]
  ELSE w

EndEnemyTurn(w) ==
  IF w.game.enemyTurnTimer <= 0
  THEN addCombatLog([w EXCEPT !.game.turnPhase = "player",
                              !.player.autoAttackTimer = Max2(0, @ - enemyTurnDuration)],
                    LogEntry("trigger", "system", -1, -1, -1))
  ELSE w

(* the enemy turn of updateCombat, updater by updater; the periodic        *)
(* effects are those of passives and items no player of the model holds    *)
Stage(name, w) == Note(w, name, 0)

AIStage(side, decision, w) ==
  BossLoop(1, Len(w.entities), side, decision,
           Stage("updateEnemyAI", [w EXCEPT !.game.enemyTurnTimer = @ - TickMs]))

SummonStage(w) == updateSummons(Stage("updateSummons", w))

ProjectileStage(w) == updateProjectiles(Stage("updateProjectiles", w))

HazardStage(w) == updateHazards(Stage("updateHazards", w))

TimerStage(w) == updateTimers(processRegen(processPoison(Stage("updateTimers", w))))

CleanupStage(w) ==
  cleanupEntities(Stage("cleanupEntities", checkRoomClear(processKills(w))))

enemyTurn_HazardsFirst(side, decision, w) ==
  EndEnemyTurn(CleanupStage(TimerStage(ProjectileStage(SummonStage(
    AIStage(side, decision, HazardStage(w)))))))

enemyTurn(side, decision, w) ==
  EndEnemyTurn(CleanupStage(TimerStage(HazardStage(ProjectileStage(SummonStage(
    AIStage(side, decision, w)))))))

playerTurn(key, offset, w) ==
  LET acted == tryPlayerTurnAction(key, offset, [w EXCEPT !.player.animState = "idle"])
  IN  IF acted.game.turnPhase = "enemy" THEN checkRoomClear(processKills(acted))
      ELSE acted

(* this.phase = phase; callbacks.onPhaseChange(phase) *)
setPhase(phase, w) == NoteBy([w EXCEPT !.game.phase = phase], "setPhase", 0, phase)

updateCombat(key, offset, side, decision, w) ==
  IF ~w.player.alive
  THEN [setPhase("defeat", [w EXCEPT !.player.secondsSinceHit = @ + TickMs])
          EXCEPT !.game.runEnds = Append(@, FALSE)]
  ELSE IF w.game.turnPhase = "player"
  THEN playerTurn(key, offset, [w EXCEPT !.player.secondsSinceHit = @ + TickMs])
  ELSE enemyTurn(side, decision, [w EXCEPT !.player.secondsSinceHit = @ + TickMs])

(* if combat is active, always surface the combat view *)
DefensiveSync(w) ==
  IF w.game.combatActive /\ w.game.phase \notin {"combat", "levelup"}
  THEN setPhase("combat", w) ELSE w

(* Game.update: the run time advances, the combat view is surfaced, and in *)
(* the combat phase updateCombat runs                                      *)
updateInCombat(key, offset, side, decision, w) ==
  LET synced == DefensiveSync([w EXCEPT !.game.runTime = @ + TickMs])
  IN  IF synced.game.phase = "combat"
      THEN updateCombat(key, offset, side, decision, synced)
      ELSE synced

(* the handler checkRoomClear left with setTimeout(..., 400): the          *)
(* guaranteed drop is granted and the loot screen is shown                 *)
roomClearHandler(w) ==
  setPhase("loot", [w EXCEPT !.game.roomClearTimeout = FALSE,
                             !.game.encounterHadItemDrop = TRUE])

MaxTurns == 23

TurnBuilds ==
  { Build({"wild_stride_boots"}, {"thorned_hide"}, 0, 0),
    Build({"wild_stride_boots", "venomweave_cloak"},
          {"thorned_hide", "mycorrhizal_bond", "debilitating_presence"}, 0, 0) }

(* a fight that has just started: the player to move, a boss or a plain    *)
(* enemy next to the player                                                *)
InitTurn ==
  /\ combatLog = <<>>
  /\ triggerChainDepths = <<>>
  /\ deathCauseDoT = 0
  /\ steps = 0
  /\ lastEvent = NoEvent
  /\ lastResult = ZeroResult
  /\ lastCtx = newTriggerContext
  /\ obs = NoObs
  /\ tally = [deaths |-> [id \in AllIds |-> 0], onKill |-> [id \in AllIds |-> 0],
              onDeath |-> [id \in AllIds |-> 0]]
  /\ game = [NoGame EXCEPT !.phase = "combat", !.combatActive = TRUE]
  /\ \E build \in TurnBuilds, c \in SkillCooldowns :
       player = createPlayer(build, 100, 0, "none")
                @@ [skills |-> Skills(c, c), nextCooldownReduction |-> 0,
                    autoAttackTimer |-> 0]
  /\ \/ \E hp \in {4, 40} : entities = <<createBoss(1, hp, 10, <<100, 60, 30>>)>>
     \/ entities = <<createBoss(1, 2, 10, <<0, 100>>)>>
     \/ entities = <<createEnemy(1, "healthy")>>

CombatStep(w) ==
  /\ steps < MaxTurns
  /\ lastEvent' = NoEvent
  /\ game.phase = "combat"
  /\ Commit(w)

TryPlayerTurnAction ==
  /\ game.turnPhase = "player"
  /\ \E key \in {"skill1", "skill2", "moveLeft", "moveRight", "click", "none"},
        offset \in {-40, 40} :
       CombatStep(updateInCombat(key, offset, 1, <<>>, World))

EnemyTurnTick ==
  /\ game.turnPhase = "enemy"
  /\ \E side \in {-1, 1},
        decision \in [{i \in 1..Len(entities) :
                         entities[i].type = "enemy" /\ ~IsBoss(entities[i])}
                        -> {Idle, [id |-> "slam", targetPos |-> Undefined]}] :
       CombatStep(updateInCombat("none", 0, side, decision, World))

NextTurn == TryPlayerTurnAction \/ EnemyTurnTick

SpecTurn == InitTurn /\ [][NextTurn]_vars

----------------------------------------------------------------------------
(* Entities with a lifetime, caught in flight during an enemy turn: a       *)
(* projectile (piercing or not, with or without splash parameters), a      *)
(* hazard or a summon a few ticks before it runs out, two enemies in reach *)

MaxFlightTicks == 6

FlightTimes == {TickMs, 3 * TickMs}

Projectile(faction, vel, piercing, splashRadius, lifetime) ==
  [createSummon EXCEPT
     !.type = "projectile", !.faction = faction,
     !.ownerId = IF faction = "player" THEN PlayerId ELSE 1,
     !.pos = IF faction = "player" THEN 15 ELSE 10,
     !.hp = HpUnit, !.maxHp = HpUnit, !.radius = 4,
     !.speed = IF vel >= 0 THEN vel ELSE 0 - vel, !.vel = vel,
     !.damage = R(8), !.lifetime = lifetime, !.piercing = piercing,
     !.splashRadius = splashRadius,
     !.splashDamage = IF splashRadius = 0 THEN R(0) ELSE R(6),
     !.tags = {"Projectile", "Physical"}]

Hazard(faction, duration, tickTimer) ==
  [createSummon EXCEPT
     !.type = "hazard", !.faction = faction,
     !.ownerId = IF faction = "player" THEN PlayerId ELSE 1,
     !.pos = 10, !.hp = HpUnit, !.maxHp = HpUnit, !.radius = 40, !.speed = 0,
     !.damage = R(3), !.duration = duration, !.tickRate = Ms(500),
     !.tickTimer = tickTimer, !.tags = {"Poison", "DOT", "AOE"}]

InFlightEntities ==
  {Projectile("player", 300, piercing, splashRadius, lifetime) :
     piercing \in BOOLEAN, splashRadius \in {0, 32}, lifetime \in FlightTimes}
  \cup {Projectile("enemy", -190, FALSE, 0, lifetime) : lifetime \in FlightTimes}
  \cup {Hazard(faction, duration, tickTimer) :
          faction \in {"player", "enemy"}, duration \in FlightTimes,
          tickTimer \in {TickMs, 2 * TickMs}}
  \cup {[createSummon EXCEPT !.duration = duration] : duration \in FlightTimes}

InitFlight ==
  /\ combatLog = <<>>
  /\ triggerChainDepths = <<>>
  /\ deathCauseDoT = 0
  /\ steps = 0
  /\ lastEvent = NoEvent
  /\ lastResult = ZeroResult
  /\ lastCtx = newTriggerContext
  /\ obs = NoObs
  /\ tally = [deaths |-> [id \in AllIds |-> 0], onKill |-> [id \in AllIds |-> 0],
              onDeath |-> [id \in AllIds |-> 0]]
  /\ game = [NoGame EXCEPT !.phase = "combat", !.combatActive = TRUE,
                           !.turnPhase = "enemy", !.enemyTurnTimer = enemyTurnDuration]
  /\ player = createPlayer(BareBuild, 100, 0, "none")
              @@ [skills |-> Skills(Ms(500), Ms(500)), nextCooldownReduction |-> 0,
                  autoAttackTimer |-> 0]
  /\ \E e \in InFlightEntities :
       entities = <<createEnemy(1, "healthy"),
                    [createEnemy(2, "healthy") EXCEPT !.pos = 30], e>>

FlightTick ==
  /\ steps < MaxFlightTicks
  /\ lastEvent' = NoEvent
  /\ game.phase = "combat"
  /\ \E side \in {-1, 1},
        decision \in [{i \in 1..Len(entities) : entities[i].type = "enemy"}
                        -> {Idle, [id |-> "slam", targetPos |-> Undefined]}] :
       Commit(updateInCombat("none", 0, side, decision, World))

NextFlight == FlightTick

SpecFlight == InitFlight /\ [][NextFlight]_vars

----------------------------------------------------------------------------
(* Timed statuses: updateStatusEffects and processBleed as passes over an  *)
(* enemy that the player's debuffs are applied to and that the player hits *)

MaxStatusSteps == 6

StatusDurations == {2 * TickMs, 4 * TickMs}

Countdown(d) == IF d = Undefined \/ d - TickMs <= 0 THEN Undefined ELSE d - TickMs

tickStatus_KeepStacks(e) ==
  IF ~e.alive THEN e
  ELSE [e EXCEPT
          !.slowDuration = Countdown(@),
          !.brittle = IF e.brittleDuration /= Undefined /\ Countdown(e.brittleDuration) = Undefined
                      THEN FALSE ELSE @,
          !.brittleDuration = Countdown(@),
          !.exposed = IF e.exposedDuration /= Undefined /\ Countdown(e.exposedDuration) = Undefined
                      THEN FALSE ELSE @,
          !.exposedDuration = Countdown(@)]

(* one entity's share of updateStatusEffects, dt = 1/60 s *)
tickStatus(e) ==
  IF ~e.alive THEN e
  ELSE [e EXCEPT
          !.slowStacks = IF e.slowDuration /= Undefined /\ Countdown(e.slowDuration) = Undefined
                         THEN 0 ELSE @,
          !.slowDuration = Countdown(@),
          !.brittle = IF e.brittleDuration /= Undefined /\ Countdown(e.brittleDuration) = Undefined
                      THEN FALSE ELSE @,
          !.brittleDuration = Countdown(@),
          !.exposed = IF e.exposedDuration /= Undefined /\ Countdown(e.exposedDuration) = Undefined
                      THEN FALSE ELSE @,
          !.exposedDuration = Countdown(@)]

updateStatusEffects(w) ==
  [Note(w, "updateStatusEffects", 0) EXCEPT
     !.entities = [i \in 1..Len(@) |-> tickStatus(@[i])]]

RECURSIVE BleedLoop(_, _)

(* the stacks are lowered but no damage is dealt *)
BleedLoop_Harmless(i, w) ==
  IF i > Len(w.entities) THEN w
  ELSE IF ~w.entities[i].alive \/ ~(OrZero(w.entities[i].bleedStacks) > 0)
  THEN BleedLoop(i + 1, w)
  ELSE BleedLoop(i + 1,
         putEntity(w, [w.entities[i] EXCEPT !.bleedStacks = Max2(0, @ - 1)]))

(* processBleed: hp -= stacks, flash, log, one stack less, inline death *)
BleedLoop(i, w) ==
  IF i > Len(w.entities) THEN w
  ELSE IF ~w.entities[i].alive \/ ~(OrZero(w.entities[i].bleedStacks) > 0)
  THEN BleedLoop(i + 1, w)
  ELSE LET e == w.entities[i]
           hurt == [e EXCEPT !.hp = @ - e.bleedStacks * HpUnit, !.flashMs = Ms(150),
                             !.bleedStacks = Max2(0, @ - 1)]
           logged == addCombatLog(w, LogEntry("damage", "bleed", -1, e.id, e.bleedStacks))
       IN  IF hurt.hp > 0 THEN BleedLoop(i + 1, putEntity(logged, hurt))
           ELSE IF e.type = "enemy"
           THEN BleedLoop(i + 1,
                  [addCombatLog(NoteDeath(putEntity(logged, markDead(hurt)), TRUE, e.id),
                                LogEntry("kill", "bleed", -1, e.id, -1))
                   EXCEPT !.deathCauseDoT = @ + 1])
           ELSE BleedLoop(i + 1, NoteDeath(putEntity(logged, markDead(hurt)), TRUE, e.id))

processBleed(w) == BleedLoop(1, Note(w, "processBleed", 0))

UpdateStatusEffects ==
  /\ steps < MaxStatusSteps
  /\ lastEvent' = NoEvent
  /\ Commit(updateStatusEffects(World))

ApplySlow ==
  /\ steps < MaxStatusSteps
  /\ lastEvent' = NoEvent
  /\ \E i \in 1..Len(entities), d \in StatusDurations :
       Commit(NoteBy(putEntity(World, applySlow(entities[i], 1, d)),
                     "applySlow", d, entities[i].id))

ApplyBrittle ==
  /\ steps < MaxStatusSteps
  /\ lastEvent' = NoEvent
  /\ \E i \in 1..Len(entities), d \in StatusDurations :
       Commit(NoteBy(putEntity(World, applyBrittle(entities[i], d)),
                     "applyBrittle", d, entities[i].id))

ApplyExposed ==
  /\ steps < MaxStatusSteps
  /\ lastEvent' = NoEvent
  /\ \E i \in 1..Len(entities), d \in StatusDurations :
       Commit(NoteBy(putEntity(World, applyExposed(entities[i], d)),
                     "applyExposed", d, entities[i].id))

StatusHit ==
  /\ steps < MaxStatusSteps
  /\ \E i \in 1..Len(entities) :
       /\ lastEvent' = DamageEventOf(PlayerId, entities[i].id, R(2), "physical")
       /\ Commit(processDamage(DamageEventOf(PlayerId, entities[i].id, R(2), "physical"),
                               World, MaxStack))

ProcessBleed ==
  /\ steps < MaxStatusSteps
  /\ lastEvent' = NoEvent
  /\ Commit(processBleed(World))

NextStatus == UpdateStatusEffects \/ ApplySlow \/ ApplyBrittle \/ ApplyExposed \/ StatusHit

InitStatus ==
  /\ InitCommon
  /\ player = createPlayer(BareBuild, 100, 0, "none")
  /\ entities = <<createEnemy(1, "weak")>>

SpecStatus == InitStatus /\ [][NextStatus]_vars

(* bleeding enemies: passes of processBleed between hits of the player *)
MaxBleed == 3

NextBleed == ProcessBleed \/ StatusHit

InitBleed ==
  /\ InitCommon
  /\ player = createPlayer(BareBuild, 100, 0, "none")
  /\ \E n \in 0..MaxBleed, m \in 0..MaxBleed, kind \in {"weak", "healthy"} :
       entities = <<[createEnemy(1, kind) EXCEPT !.bleedStacks = n],
                    [createEnemy(2, "weak") EXCEPT !.bleedStacks = m]>>

SpecBleed == InitBleed /\ [][NextBleed]_vars

----------------------------------------------------------------------------
(* The end of a fight: a player about to die next to a boss that the       *)
(* reflected damage may kill with the same blow                            *)

MaxDefeatTicks == 8

InitDefeat ==
  /\ combatLog = <<>>
  /\ triggerChainDepths = <<>>
  /\ deathCauseDoT = 0
  /\ steps = 0
  /\ lastEvent = NoEvent
  /\ lastResult = ZeroResult
  /\ lastCtx = newTriggerContext
  /\ obs = NoObs
  /\ tally = [deaths |-> [id \in AllIds |-> 0], onKill |-> [id \in AllIds |-> 0],
              onDeath |-> [id \in AllIds |-> 0]]
  /\ \E turnPhase \in {"player", "enemy"} :
       game = [NoGame EXCEPT !.phase = "combat", !.combatActive = TRUE,
                             !.turnPhase = turnPhase,
                             !.enemyTurnTimer = IF turnPhase = "enemy"
                                                THEN enemyTurnDuration ELSE 0]
  /\ \E build \in TurnBuilds, hp \in {5, 100} :
       player = createPlayer(build, hp, 0, "none")
                @@ [skills |-> Skills(Ms(500), Ms(500)), nextCooldownReduction |-> 0,
                    autoAttackTimer |-> 0]
  /\ \/ entities = <<createBoss(1, 40, 10, <<100, 60, 30>>)>>
     \/ entities = <<createBoss(1, 2, 10, <<0, 100>>)>>

Update ==
  /\ steps < MaxDefeatTicks
  /\ lastEvent' = NoEvent
  /\ \E key \in {"click", "none"}, side \in {-1, 1} :
       Commit(updateInCombat(key, 40, side, <<>>, World))

RoomClearTimeout ==
  /\ game.roomClearTimeout
  /\ Between(roomClearHandler(World))

NextDefeat == Update \/ RoomClearTimeout

SpecDefeat == InitDefeat /\ [][NextDefeat]_vars

----------------------------------------------------------------------------
(* A crowd of summons: summon skills cast with up to eight summons alive,  *)
(* an enemy that kills summons, and the cleanup of the dead                *)

MaxCasts == 3

InitSummons ==
  /\ InitCommon
  /\ \E build \in RunBuilds : player = createPlayer(build, 100, 0, "none")
  /\ \E n \in {0, 6, 7, maxActiveSummons} :
       entities = <<createEnemy(1, "healthy")>>
                  \o [k \in 1..n |-> [createSummon EXCEPT !.id = SummonId + k - 1]]

CastSummon ==
  /\ steps < MaxCasts
  /\ lastEvent' = NoEvent
  /\ \E maxSummons \in {0, 2}, offset \in {-40, 40} :
       Commit(spawnSummon(maxSummons, offset, Note(World, "spawnSummon", maxSummons)))

SummonStruck ==
  /\ steps < MaxCasts
  /\ \E i \in ActiveSummons(World) :
       /\ \A j \in ActiveSummons(World) : i <= j
       /\ lastEvent' = DamageEventOf(1, entities[i].id, R(40), "physical")
       /\ Commit(processDamage(DamageEventOf(1, entities[i].id, R(40), "physical"),
                               World, MaxStack))

SummonsCleanup ==
  /\ steps < MaxCasts
  /\ lastEvent' = NoEvent
  /\ Commit(cleanupEntities(updateTimers(World)))

NextSummons == CastSummon \/ SummonStruck \/ SummonsCleanup

SpecSummons == InitSummons /\ [][NextSummons]_vars

----------------------------------------------------------------------------
(* Properties *)

REq(a, b) == a.n * b.d = b.n * a.d

Handlers(trace) == {i \in 1..Len(trace) : trace[i].stage \in TriggerKinds}

HandlersOf(trace, kind) == {i \in 1..Len(trace) : trace[i].stage = kind}

Enemies == {i \in 1..Len(entities) : entities[i].faction = "enemy"}

NestedCalls == IF obs.calls > 0 THEN obs.calls - 1 ELSE 0

IsDamageStep == lastEvent' /= NoEvent

(* the entity an id of the coming event resolves to, before the call *)
Resolves(id) == id = PlayerId \/ \E i \in 1..Len(entities) : entities[i].id = id

Resolved(id) ==
  IF id = PlayerId THEN player
  ELSE entities[CHOOSE i \in 1..Len(entities) : entities[i].id = id]

TargetMissingOrDead ==
  ~Resolves(lastEvent'.targetId) \/ ~Resolved(lastEvent'.targetId).alive

TargetInvulnerable ==
  /\ Resolves(lastEvent'.targetId) /\ Resolves(lastEvent'.attackerId)
  /\ Resolved(lastEvent'.targetId).alive
  /\ Resolved(lastEvent'.targetId).invulnMs > 0

Untouched == UNCHANGED <<player, entities, combatLog, triggerChainDepths>>

(* C1: every externally initiated processDamage call comes to an end: no   *)
(* chain of reactive triggers, whatever the loadout and the entities,      *)
(* nests deeper than the call stack allows.                                *)
C1_Terminates == obs.diverged = FALSE

(* a loadout built to loop (reflect, retaliation pulse) re-entered the     *)
(* pipeline under one context, ran into the caps and returned              *)
C1_Witness ==
  /\ lastEvent.targetId = PlayerId /\ player.thornMantleBuff > 0
  /\ {"bramble_heart"} \subseteq player.items /\ "thorned_hide" \in player.passives
  /\ obs.calls >= 3 /\ obs.suppressed > 0 /\ ~obs.diverged
  /\ lastResult.finalDamage > 0

C3_ContextWithinCaps ==
  /\ lastCtx.depth <= maxTriggerChainDepth
  /\ \A i \in 1..Len(triggerChainDepths) : triggerChainDepths[i] <= maxTriggerChainDepth
  /\ \A k \in TriggerKinds :
       /\ lastCtx.triggerCounts[k] <= maxSameTriggerRepeats
       /\ canTrigger(lastCtx, k) <=>
            ~(lastCtx.depth >= maxTriggerChainDepth
              \/ lastCtx.triggerCounts[k] >= maxSameTriggerRepeats)
       /\ Cardinality(HandlersOf(obs.trace, k)) = lastCtx.triggerCounts[k]
       /\ Cardinality(HandlersOf(obs.trace, k)) <= maxSameTriggerRepeats
  /\ Cardinality(Handlers(obs.trace)) = lastCtx.depth
  /\ Cardinality(Handlers(obs.trace)) <= maxTriggerChainDepth

C3_Witness ==
  /\ lastCtx.depth = maxTriggerChainDepth
  /\ \E k \in TriggerKinds : lastCtx.triggerCounts[k] = maxSameTriggerRepeats
  /\ obs.suppressed > 0

(* C4: within one damage event the kill- and death-triggered spread and    *)
(* spawn effects create or affect at most maxSpawnedFromEvent entities.    *)
C4_SpreadWithinSpawnCap == obs.spread <= maxSpawnedFromEvent

(* C5: for each entity death the on-kill and the on-death handler have     *)
(* fired exactly once.                                                      *)
C5_KillHandlersOncePerDeath ==
  \A id \in AllIds : /\ tally.onKill[id] = tally.deaths[id]
                     /\ tally.onDeath[id] = tally.deaths[id]

(* C6: processDamage with a target id that resolves to nothing, a target   *)
(* that is not alive, or an attacker id that resolves to nothing returns   *)
(* the zero result and changes no entity, no log and no context.           *)
C6_InvalidIsNoOp ==
  [][(IsDamageStep /\ (TargetMissingOrDead \/ ~Resolves(lastEvent'.attackerId)))
       => /\ lastResult' = ZeroResult
          /\ Untouched
          /\ lastCtx' = newTriggerContext
          /\ obs'.trace = <<>>]_vars

(* a call against a target that had died before came back empty *)
C6_Witness ==
  /\ lastEvent /= NoEvent /\ lastEvent.targetId \in 1..MaxEnemies
  /\ hasEntity(World, lastEvent.targetId)
  /\ ~findEntity(World, lastEvent.targetId).alive
  /\ obs.calls = 1 /\ obs.hits = <<>> /\ lastResult = ZeroResult

(* C7: processDamage with an attacker that exists but is not alive returns *)
(* the zero result and changes no state.                                   *)
C7_DeadAttackerIsNoOp ==
  [][(/\ IsDamageStep
      /\ Resolves(lastEvent'.attackerId)
      /\ ~Resolved(lastEvent'.attackerId).alive)
       => /\ lastResult' = ZeroResult
          /\ Untouched]_vars

(* C8: with the target's invulnerability timer running processDamage      *)
(* returns dodged with no damage and no kill, and health, shield, brittle, *)
(* log and context are unchanged and no handler has run.                   *)
C8_InvulnerableDodges ==
  [][(IsDamageStep /\ TargetInvulnerable)
       => /\ lastResult' = DodgedResult
          /\ Untouched
          /\ lastCtx' = newTriggerContext
          /\ obs'.trace = <<>>]_vars

(* a hit on an invulnerable brittle target was dodged and left it brittle *)
C8_Witness ==
  /\ lastEvent /= NoEvent /\ lastResult = DodgedResult
  /\ hasEntity(World, lastEvent.targetId)
  /\ findEntity(World, lastEvent.targetId).invulnMs > 0
  /\ findEntity(World, lastEvent.targetId).brittle
  /\ obs.calls = 1

(* C9: a resolved physical hit on a target with nonzero armor applies      *)
(* post-mitigation damage (to shield and health together) of at least 1.   *)
C9_ArmoredHitAtLeastOne ==
  \A i \in 1..Len(obs.hits) :
    LET h == obs.hits[i]
    IN  (h.armored /\ h.armor /= 0)
          => /\ RLeq(R(1), h.post)
             /\ h.rounded >= 1
             /\ h.absorbed + h.finalDamage >= 1

(* the floor was what kept the hit at 1 *)
C9_Witness ==
  \E i \in 1..Len(obs.hits) :
    LET h == obs.hits[i]
    IN  /\ h.armored /\ h.armor /= 0
        /\ ~RLeq(R(1), RSub(h.pre, h.reduction))
        /\ h.rounded = 1

(* C10: the armor reduction of a physical hit is                           *)
(* min(0.5 * armor, maxDamageReduction * pre-mitigation damage), at most   *)
(* 70% of the pre-mitigation damage; armor 20 against base damage 10       *)
(* reduces by 7 and leaves 3.                                              *)
C10_ArmorReductionCapped ==
  \A i \in 1..Len(obs.hits) :
    LET h == obs.hits[i]
    IN  h.armored =>
          /\ REq(h.reduction, RMin([n |-> h.armor, d |-> 2], RMul(h.pre, 7, 10)))
          /\ RLeq(h.reduction, RMul(h.pre, 7, 10))
          /\ RLeq(h.reduction, RMul(h.base, 7, 10))
          /\ (h.armor = 20 /\ REq(h.pre, R(10)))
               => (REq(h.reduction, R(7)) /\ h.rounded = 3)

C10_Witness ==
  \E i \in 1..Len(obs.hits) :
    LET h == obs.hits[i]
    IN  /\ h.armored /\ h.armor = 20 /\ REq(h.pre, R(10))
        /\ REq(h.reduction, R(7)) /\ h.rounded = 3

(* C11: a hit of rounded damage d on a target holding a shield pool s > 0   *)
(* is absorbed for min(s, d): the pool becomes s - min(s, d), never         *)
(* negative, and health goes down by exactly d - min(s, d); a pool of 5     *)
(* under a hit of 8 ends at 0 with health down by 3.                        *)
C11_ShieldAbsorbsMin ==
  \A i \in 1..Len(obs.hits) :
    LET h == obs.hits[i]
    IN  h.shield > 0 =>
          /\ h.absorbed = Min2(h.shield, h.rounded)
          /\ h.shieldAfter = h.shield - Min2(h.shield, h.rounded)
          /\ h.shieldAfter >= 0
          /\ h.hp - h.hpAfter = (h.rounded - Min2(h.shield, h.rounded)) * HpUnit
          /\ (h.shield = 5 /\ h.rounded = 8)
               => (h.shieldAfter = 0 /\ h.hp - h.hpAfter = 3 * HpUnit)

(* a pool of 5 took a hit of 8 *)
C11_Witness ==
  \E i \in 1..Len(obs.hits) :
    LET h == obs.hits[i]
    IN  /\ h.shield = 5 /\ h.rounded = 8 /\ h.absorbed = 5
        /\ h.shieldAfter = 0 /\ h.hp - h.hpAfter = 3 * HpUnit

(* C12: a hit on a brittle target has its damage multiplied by 1.5 and      *)
(* clears the flag and the remaining duration within that hit, so that the  *)
(* same hit made again right after is not multiplied: two hits of 10 deal   *)
(* 15 and then 10.                                                          *)
C12_BrittleConsumedByHit ==
  /\ [](\A i \in 1..Len(obs.hits) :
         LET h == obs.hits[i]
         IN  /\ h.wasBrittle =>
                  /\ REq(h.mitigated, RMul(h.beforeBrittle, 3, 2))
                  /\ h.brittleAfter = FALSE
                  /\ h.brittleDurationAfter = Undefined
             /\ ~h.wasBrittle => REq(h.mitigated, h.beforeBrittle))
  /\ [][(/\ IsDamageStep /\ lastEvent' = lastEvent
         /\ Len(obs.hits) > 0 /\ Len(obs'.hits) > 0
         /\ obs.hits[1].wasBrittle)
          => /\ ~obs'.hits[1].wasBrittle
             /\ REq(obs'.hits[1].mitigated, obs'.hits[1].beforeBrittle)
             /\ (REq(obs.hits[1].beforeBrittle, R(10))
                 /\ REq(obs'.hits[1].beforeBrittle, R(10)))
                  => (obs.hits[1].rounded = 15 /\ obs'.hits[1].rounded = 10)]_vars

(* the second of two hits of 10 on a target that was brittle dealt 10 *)
C12_Witness ==
  /\ steps = 2 /\ Len(obs.hits) > 0
  /\ ~obs.hits[1].wasBrittle /\ obs.hits[1].rounded = 10
  /\ REq(obs.hits[1].base, R(10))
  /\ obs.hits[1].hp = (40 - 15) * HpUnit

(* the entity of the next state that carries the id of entities[i] *)
Kept(i) == \E j \in 1..Len(entities') : entities'[j].id = entities[i].id

After(i) ==
  entities'[CHOOSE j \in 1..Len(entities') : entities'[j].id = entities[i].id]

(* C13: an entity goes from alive to not-alive once, when its health       *)
(* reaches 0 or less, and is never alive again; its death timer is started  *)
(* at that moment and afterwards only counts down; the entity stays in the *)
(* collection while the timer runs and is removed by cleanup only once it  *)
(* has elapsed.                                                            *)
C13_DiesOnceTimerCountsDown ==
  [][\A i \in 1..Len(entities) :
       /\ (Kept(i) /\ entities[i].alive /\ ~After(i).alive)
             => (After(i).hp <= 0 /\ After(i).deathAnimMs = Ms(500))
       /\ (Kept(i) /\ After(i).alive) => (entities[i].alive /\ After(i).hp > 0)
       /\ (Kept(i) /\ ~entities[i].alive)
             => After(i).deathAnimMs <= entities[i].deathAnimMs
       /\ (~entities[i].alive /\ entities[i].deathAnimMs > 0) => Kept(i)
       /\ ~Kept(i) => Removable(entities[i])]_vars

(* C14: between any two operations of the run (damage, poison, regen,      *)
(* heals, summon casts, event choices) the player's and every entity's     *)
(* health satisfies 0 <= hp <= maxHp.                                      *)
C14_HealthWithinBounds ==
  /\ 0 <= player.hp /\ player.hp <= player.maxHp
  /\ \A i \in 1..Len(entities) :
       0 <= entities[i].hp /\ entities[i].hp <= entities[i].maxHp

(* C15: in every reachable state each entity's poison stack count is within *)
(* [0, maxPoisonStacks], whatever on-hit applications and on-kill spreads   *)
(* have run.                                                               *)
C15_PoisonStacksCapped ==
  \A i \in 1..Len(entities) :
    0 <= entities[i].poisonStacks /\ entities[i].poisonStacks <= maxPoisonStacks

(* a kill by the player spread poison onto a living enemy that ends at the cap *)
C15_Witness ==
  /\ lastEvent.attackerId = PlayerId
  /\ obs.spread > 0
  /\ \E i \in 1..Len(entities) :
       /\ entities[i].alive /\ entities[i].type = "enemy"
       /\ entities[i].poisonStacks = maxPoisonStacks
  /\ \E i \in 1..Len(obs.trace) : obs.trace[i].stage = "OnHit"

(* C16: every entity's bleed stack count is a number within [0, 15] and    *)
(* its slow stack count a number within [0, 3], whatever applyBleed and    *)
(* applySlow calls have run.                                               *)
C16_BleedSlowCapped ==
  \A i \in 1..Len(entities) :
    /\ entities[i].bleedStacks \in 0..15
    /\ entities[i].slowStacks \in 0..3

(* living enemies that are in the collection before and after the step *)
Casters ==
  {i \in 1..Len(entities) : /\ entities[i].type = "enemy" /\ entities[i].alive
                             /\ Kept(i) /\ After(i).alive}

OthersUntouched(i) ==
  /\ player' = player
  /\ combatLog' = combatLog
  /\ Len(entities') = Len(entities)
  /\ \A j \in 1..Len(entities) : j /= i => entities'[j] = entities[j]

(* C17: while an enemy's ability is in its telegraph phase none of its     *)
(* effects is applied (no movement, damage, projectile or hazard); the     *)
(* ability leaves the telegraph phase, and so applies its first effect,    *)
(* only once its full telegraph duration of phase time has elapsed since   *)
(* startAbility: 0.4 s for blink.                                          *)
C17_NoEffectInTelegraph ==
  /\ [](\A i \in 1..Len(entities) :
          (entities[i].type = "enemy" /\ entities[i].activeAbility.phase = "telegraph")
            => entities[i].activeAbility.effects = {})
  /\ [][\A i \in Casters : entities[i].activeAbility.phase = "telegraph" =>
           /\ After(i).activeAbility.phase = "telegraph" =>
                 /\ After(i).pos = entities[i].pos
                 /\ After(i).hp = entities[i].hp
                 /\ OthersUntouched(i)
           /\ After(i).activeAbility.phase /= "telegraph" =>
                 /\ After(i).activeAbility.elapsed
                      >= TelegraphTime(entities[i].activeAbility.id)
                 /\ entities[i].activeAbility.id = "blink"
                      => After(i).activeAbility.elapsed >= Ms(400)]_vars

(* a blink has just executed, 0.4 s after its start, and moved the enemy *)
C17_Witness ==
  \E i \in 1..Len(entities) :
    /\ entities[i].type = "enemy"
    /\ entities[i].activeAbility.id = "blink"
    /\ entities[i].activeAbility.phase = "execute"
    /\ entities[i].activeAbility.elapsed = Ms(400)
    /\ "move" \in entities[i].activeAbility.effects
    /\ entities[i].pos = 30

(* a living player-side entity within r of pos after the step *)
InReach(pos, r) ==
  /\ player'.alive
  /\ \/ dist(player'.pos, pos) < r
     \/ \E j \in 1..Len(entities') :
          /\ entities'[j].type = "summon" /\ entities'[j].alive
          /\ entities'[j].faction = "player" /\ dist(entities'[j].pos, pos) < r

UsesTarget(id) == id \in {"blink", "charge", "lunge", "retreat", "hazard"}

(* C18: when an ability started with valid positions ends its execute      *)
(* phase its effect has been fully applied: charge, lunge and retreat have *)
(* moved the enemy to the target position and applied their completion     *)
(* damage or dropped their mine, blink has moved the enemy, burst_fire has  *)
(* created its projectiles, hazard its hazard, and slam has applied its     *)
(* damage.                                                                 *)
C18_EffectAppliedByEndOfExecute ==
  [][\A i \in Casters :
       (/\ entities[i].activeAbility.phase = "execute"
        /\ After(i).activeAbility.phase = "recovery"
        /\ UsesTarget(entities[i].activeAbility.id)
              => entities[i].activeAbility.targetPos /= Undefined)
       => LET a == After(i).activeAbility
          IN  /\ a.id \in {"blink", "charge", "lunge", "retreat"}
                   => After(i).pos = clampToArena(a.targetPos)
              /\ (a.id = "charge" /\ InReach(clampToArena(a.targetPos), 36))
                   => "damage" \in a.effects
              /\ (a.id = "lunge" /\ InReach(clampToArena(a.targetPos), 30))
                   => "damage" \in a.effects
              /\ a.id = "retreat" => "hazard" \in a.effects
              /\ a.id = "burst_fire" => "projectile" \in a.effects
              /\ a.id = "hazard" => "hazard" \in a.effects
              /\ (a.id = "slam" /\ InReach(After(i).pos, 48))
                   => "damage" \in a.effects]_vars

(* C19: an enemy has at most one ability in flight: startAbility is never  *)
(* applied to an enemy whose ability record is set, at most once to one    *)
(* whose record is not, and while the record is set the enemy's decision   *)
(* function does not run.                                                  *)
C19_OneAbilityInFlight ==
  [][\A i \in 1..Len(entities) : entities[i].type = "enemy" =>
       /\ CountStage(obs'.trace, "startAbility", entities[i].id) <= 1
       /\ entities[i].activeAbility.id /= "none" =>
             /\ CountStage(obs'.trace, "startAbility", entities[i].id) = 0
             /\ CountStage(obs'.trace, "AI", entities[i].id) = 0]_vars

(* a tick has just advanced a running ability, and nothing was decided *)
C19_Witness ==
  /\ steps > 1
  /\ obs.trace = <<>>
  /\ \E i \in 1..Len(entities) :
       /\ entities[i].type = "enemy" /\ entities[i].alive
       /\ entities[i].activeAbility.id = "charge"
       /\ entities[i].activeAbility.phase = "telegraph"
       /\ entities[i].activeAbility.elapsed > 0

(* C20: when the target position is missing as the execute function of an  *)
(* ability that uses one runs, the call changes nothing (no movement,       *)
(* damage, projectile or hazard), and the ability still goes through its    *)
(* execute and recovery phases, each for its full time, back to idle.       *)
C20_MissingTargetIsNoOp ==
  /\ [][\A i \in Casters :
           /\ (/\ entities[i].activeAbility.phase = "telegraph"
               /\ After(i).activeAbility.phase /= "telegraph"
               /\ UsesTarget(entities[i].activeAbility.id)
               /\ entities[i].activeAbility.targetPos = Undefined)
               => /\ After(i) = [entities[i] EXCEPT
                       !.activeAbility.phase = "execute",
                       !.activeAbility.timer = ExecuteTime(entities[i].activeAbility.id),
                       !.activeAbility.elapsed = @ + TickMs]
                  /\ OthersUntouched(i)
           /\ (entities[i].activeAbility.phase = "execute"
                /\ entities[i].activeAbility.timer <= TickMs)
               => (After(i).activeAbility.phase = "recovery"
                   /\ After(i).animState = "idle")
           /\ (entities[i].activeAbility.phase = "recovery"
                /\ entities[i].activeAbility.timer <= TickMs)
               => (After(i).activeAbility = NoAbility /\ After(i).animState = "idle")]_vars
  /\ [](\A i \in 1..Len(entities) :
          (/\ entities[i].type = "enemy"
           /\ UsesTarget(entities[i].finished.id)
           /\ entities[i].finished.targetPos = Undefined)
          => /\ entities[i].finished.effects = {}
             /\ entities[i].finished.elapsed =
                  TelegraphTime(entities[i].finished.id)
                  + ExecuteTime(entities[i].finished.id) + DefaultRecovery)

(* a blink without a target position has run its course *)
C20_Witness ==
  \E i \in 1..Len(entities) :
    /\ entities[i].type = "enemy" /\ entities[i].alive
    /\ entities[i].finished.id = "blink"
    /\ entities[i].finished.targetPos = Undefined
    /\ entities[i].finished.effects = {}
    /\ entities[i].activeAbility = NoAbility
    /\ entities[i].animState = "idle"
    /\ entities[i].pos = 10


(* C21: the boss's current phase after its turn is the lowest-indexed      *)
(* phase whose threshold is at least hp/maxHp as measured at the start of  *)
(* the turn (the last qualifying phase of the scan from the highest index  *)
(* to the lowest; phase 0 when none qualifies), and an ability used that   *)
(* turn is one of that phase's list.                                       *)
Qualifying(e) ==
  {k \in 0..(Len(e.thresholds) - 1) : e.hp * 100 <= e.thresholds[k + 1] * e.maxHp}

LowestQualifying(e) ==
  IF Qualifying(e) = {} THEN 0
  ELSE CHOOSE k \in Qualifying(e) : \A j \in Qualifying(e) : k <= j

Acted(i) ==
  /\ IsBoss(entities[i]) /\ entities[i].alive
  /\ findEntity(World, findNearestPlayerAlly(World, entities[i].pos)).alive

AbilityIds(k) == {PhaseAbilities(k)[j].id : j \in 1..Len(PhaseAbilities(k))}

C21_BossPhaseSelection ==
  [][\A i \in 1..Len(entities) :
       Acted(i) =>
         /\ Kept(i)
         /\ After(i).currentPhase = LowestQualifying(entities[i])
         /\ \A t \in 1..Len(obs'.trace) :
              (obs'.trace[t].id = entities[i].id
               /\ obs'.trace[t].stage \in CooldownKeys \ {"basic_attack"})
              => obs'.trace[t].stage \in AbilityIds(LowestQualifying(entities[i]))]_vars

(* a boss below two thresholds, the later-listed one the higher, has taken *)
(* the earlier-listed phase and used one of its abilities                  *)
C21_Witness ==
  \E i \in 1..Len(entities) :
    /\ IsBoss(entities[i]) /\ steps > 0
    /\ entities[i].thresholds = <<100, 30, 60>>
    /\ entities[i].hp = 20 * HpUnit
    /\ entities[i].currentPhase = 0
    /\ \E t \in 1..Len(obs.trace) : obs.trace[t].stage \in AbilityIds(0)

(* C22: the combat log never holds more than 200 entries, and after a      *)
(* damage event it is exactly the last 200 of the old log followed by the  *)
(* entries the event appended, in that order and unmodified.               *)
LastOf(n, s) == IF Len(s) > n THEN SubSeq(s, Len(s) - n + 1, Len(s)) ELSE s

Appended ==
  processDamage(lastEvent', [World EXCEPT !.combatLog = <<>>], MaxStack).combatLog

C22_LogKeepsLast200 ==
  /\ [](Len(combatLog) <= maxCombatLog)
  /\ [][combatLog' = LastOf(maxCombatLog, combatLog \o Appended)]_vars

(* a full log whose oldest entries were dropped for the entries of an event *)
C22_Witness ==
  /\ steps > 0
  /\ Len(combatLog) = maxCombatLog
  /\ combatLog[1].value > 1
  /\ combatLog[Len(combatLog)] \notin {LogOf(maxCombatLog)[i] : i \in 1..maxCombatLog}

(* C23: immediately after any skill use the skill's remaining cooldown is  *)
(* at least minCooldown (0.4 s), whatever the defined cooldown and the     *)
(* cooldown reductions in effect.                                          *)
Used(i) ==
  \E t \in 1..Len(obs'.trace) :
    obs'.trace[t].stage = "useSkill" /\ obs'.trace[t].id = i

C23_CooldownAtLeastMinimum ==
  [][\A i \in 1..Len(player.skills) :
       Used(i) => player'.skills[i].cooldownRemaining >= minCooldown]_vars

(* C24: the pause key pauses and resumes. A frame of a paused game runs no *)
(* update tick; a frame that runs a tick of a running game with a pending  *)
(* ESC press leaves it paused; a frame of a paused game with a pending ESC *)
(* press leaves it running.                                                *)
IsFrame == game'.frames = game.frames + 1

EscPending == "Escape" \in game.keysJustPressed

C24_EscPausesAndResumes ==
  [][IsFrame =>
       /\ (game.paused => game'.runTime = game.runTime)
       /\ (EscPending /\ ~game.paused /\ game'.updates > 0 => game'.paused)
       /\ (EscPending /\ game.paused => ~game'.paused)]_vars

(* C25: every reactive handler of every kind runs guarded and recorded:    *)
(* after an event the handlers of each kind that ran are as many as the    *)
(* context recorded for that kind, and the handlers that ran in total are  *)
(* as many as the context's depth.                                         *)
ReactiveKinds == TriggerKinds \cup {"OnDebuffApplied", "OnAreaDamage"}

Recorded(ctx, kind) ==
  IF kind \in DOMAIN ctx.triggerCounts THEN ctx.triggerCounts[kind] ELSE 0

C25_HandlersGuardedAndRecorded ==
  /\ \A k \in ReactiveKinds :
       Cardinality(HandlersOf(obs.trace, k)) = Recorded(lastCtx, k)
  /\ Cardinality({i \in 1..Len(obs.trace) : obs.trace[i].stage \in ReactiveKinds})
       = lastCtx.depth

(* C26 (as stated): within one processDamage call the stages run in the    *)
(* order application, on-hit handler, on-damage-taken handler, lethal      *)
(* check.                                                                  *)
StageAt(stages) ==
  {i \in 1..Len(obs.trace) :
     obs.trace[i].stage \in stages /\ obs.trace[i].id = lastEvent.targetId}

Before(first, second) == \A i \in StageAt(first), j \in StageAt(second) : i < j

OneApplication == Cardinality(StageAt({"apply"})) = 1

C26_Original ==
  OneApplication =>
    /\ Before({"apply"}, {"OnHit"})
    /\ Before({"OnHit"}, {"OnDamageTaken"})
    /\ Before({"OnDamageTaken"}, {"lethal", "survived"})

(* C26: within one processDamage call the stages run in the order          *)
(* application, on-damage-taken handler, on-hit handler, lethal check:     *)
(* the on-damage-taken handler runs before the on-hit handler, and both    *)
(* run after health is reduced and before the lethal check.                *)
C26_StageOrder ==
  OneApplication =>
    /\ Before({"apply"}, {"OnDamageTaken", "OnHit", "lethal", "survived"})
    /\ Before({"OnDamageTaken"}, {"OnHit"})
    /\ Before({"OnDamageTaken", "OnHit"}, {"lethal", "survived"})
    /\ StageAt({"lethal", "survived"}) /= {}

(* an event whose target was hit once and both handlers ran for it *)
C26_Witness ==
  /\ OneApplication
  /\ StageAt({"OnDamageTaken"}) /= {}
  /\ StageAt({"OnHit"}) /= {}
  /\ StageAt({"lethal"}) /= {}

(* C27: in every tick of the enemy turn the updaters run once each, in the *)
(* order AI, summons, projectiles, hazards, timers, cleanup; and a hazard  *)
(* never strikes an entity that died earlier in the same tick, so an enemy *)
(* that died in the AI stage takes no hazard damage in that tick.          *)
TickStages ==
  <<"updateEnemyAI", "updateSummons", "updateProjectiles", "updateHazards",
    "updateTimers", "cleanupEntities">>

StagesOf(trace) ==
  LET marks == SelectSeq(trace, LAMBDA e :
                 \E k \in 1..Len(TickStages) : e.stage = TickStages[k])
  IN  [k \in 1..Len(marks) |-> marks[k].stage]

IsEnemyTick == game.turnPhase = "enemy" /\ player.alive /\ steps' = steps + 1

DiedInAI(trace) ==
  UNION {trace[t].died : t \in HandlersOf(trace, "updateSummons")}

C27_TickOrder ==
  [][IsEnemyTick =>
       /\ StagesOf(obs'.trace) = TickStages
       /\ \A t \in HandlersOf(obs'.trace, "hazard") :
            /\ obs'.trace[t].id \notin obs'.trace[t].died
            /\ obs'.trace[t].id \notin DiedInAI(obs'.trace)]_vars

(* an enemy died in the AI stage of a tick in which a hazard of the player *)
(* that covers it pulsed                                                   *)
C27_Witness ==
  \E i \in 1..Len(entities), h \in 1..Len(entities) :
    /\ entities[i].id \in DiedInAI(obs.trace)
    /\ entities[i].type = "enemy"
    /\ entities[h].type = "hazard" /\ entities[h].alive
    /\ entities[h].faction = "player"
    /\ entities[h].tickTimer = entities[h].tickRate
    /\ dist(entities[i].pos, entities[h].pos) < entities[h].radius

(* C28: every tick of the enemy turn ticks the timed statuses: on an entity *)
(* that stays alive, a slow that was not reapplied and a brittle that was   *)
(* not consumed by a hit lose the tick's dt, and are cleared at 0.          *)
Decayed(duration) ==
  IF duration - TickMs <= 0 THEN Undefined ELSE duration - TickMs

Reapplied(i) ==
  \E t \in HandlersOf(obs'.trace, "OnDebuffApplied") : obs'.trace[t].id = entities[i].id

Struck(i) ==
  \E t \in HandlersOf(obs'.trace, "apply") : obs'.trace[t].id = entities[i].id

C28_StatusTicks ==
  [][IsEnemyTick =>
       \A i \in 1..Len(entities) :
         (entities[i].alive /\ Kept(i) /\ After(i).alive) =>
           /\ (entities[i].slowDuration /= Undefined /\ ~Reapplied(i)
                 => After(i).slowDuration = Decayed(entities[i].slowDuration))
           /\ (entities[i].brittleDuration /= Undefined /\ ~Struck(i)
                 => After(i).brittleDuration = Decayed(entities[i].brittleDuration))]_vars

(* C29: the ability of a living enemy runs telegraph, execute, recovery in  *)
(* that order: it enters telegraph with the telegraph time of its id, and   *)
(* in every tick it either stays in its phase with dt less on the timer, or *)
(* its timer has run out and it moves to the next phase with that phase's   *)
(* fixed time (execute per id, recovery 0.2 s), or leaves recovery with the *)
(* record cleared after telegraph + execute + recovery of ability time.     *)
PhaseTime(ability) ==
  CASE ability.phase = "telegraph" -> TelegraphTime(ability.id)
    [] ability.phase = "execute" -> ExecuteTime(ability.id)
    [] ability.phase = "recovery" -> DefaultRecovery
    [] OTHER -> 0

NextPhase(phase) ==
  CASE phase = "telegraph" -> "execute"
    [] phase = "execute" -> "recovery"
    [] OTHER -> "none"

Lifetime(id) == TelegraphTime(id) + ExecuteTime(id) + DefaultRecovery

Stays(a, b) ==
  /\ a.timer - TickMs > 0
  /\ b.id = a.id /\ b.phase = a.phase /\ b.timer = a.timer - TickMs

Advances(a, b) ==
  /\ a.timer - TickMs <= 0
  /\ NextPhase(a.phase) /= "none"
  /\ b.id = a.id /\ b.phase = NextPhase(a.phase) /\ b.timer = PhaseTime(b)

Ends(a, b, finished) ==
  /\ a.timer - TickMs <= 0
  /\ a.phase = "recovery"
  /\ b = NoAbility
  /\ finished.id = a.id /\ finished.elapsed = Lifetime(a.id)

C29_AbilityLifecycle ==
  [][\A i \in 1..Len(entities) :
       (entities[i].type = "enemy" /\ entities[i].alive /\ Kept(i) /\ After(i).alive) =>
         /\ (entities[i].activeAbility.id = "none" /\ After(i).activeAbility.id /= "none"
               => /\ After(i).activeAbility.phase = "telegraph"
                  /\ After(i).activeAbility.timer = PhaseTime(After(i).activeAbility))
         /\ (entities[i].activeAbility.id /= "none"
               => \/ Stays(entities[i].activeAbility, After(i).activeAbility)
                  \/ Advances(entities[i].activeAbility, After(i).activeAbility)
                  \/ Ends(entities[i].activeAbility, After(i).activeAbility,
                          After(i).finished))]_vars

(* a ground slam ran its 0.5 s + 0.3 s + 0.2 s and left the enemy idle *)
C29_Witness ==
  \E i \in 1..Len(entities) :
    /\ entities[i].type = "enemy" /\ entities[i].alive
    /\ entities[i].activeAbility = NoAbility
    /\ entities[i].finished.id = "slam"
    /\ entities[i].finished.phase = "recovery"
    /\ entities[i].finished.elapsed = Ms(1000)

(* C30: only death interrupts an ability in flight. While the enemy lives, *)
(* every updateEnemyAI tick moves its ability one dt along its lifecycle,  *)
(* hit, slowed, rooted, stunned or without a living target as it may be,   *)
(* and no other step of the game changes the record; the ability of a dead *)
(* enemy is never advanced again and moves the enemy no further.           *)
IsAITick == steps' = steps + 1

C30_OnlyDeathInterrupts ==
  [][\A i \in 1..Len(entities) :
       (entities[i].type = "enemy" /\ Kept(i)) =>
         /\ (entities[i].alive /\ After(i).alive
              /\ entities[i].activeAbility.id /= "none" /\ IsAITick
               => \/ Stays(entities[i].activeAbility, After(i).activeAbility)
                  \/ Advances(entities[i].activeAbility, After(i).activeAbility)
                  \/ Ends(entities[i].activeAbility, After(i).activeAbility,
                          After(i).finished))
         /\ (entities[i].alive /\ After(i).alive /\ ~IsAITick
               => After(i).activeAbility = entities[i].activeAbility)
         /\ (~entities[i].alive
               => /\ After(i).activeAbility = entities[i].activeAbility
                  /\ After(i).pos = entities[i].pos
                  /\ ~After(i).alive)]_vars

(* a lunge ran its full course on an enemy that was hit, slowed, rooted    *)
(* and stunned in flight and whose target had died                         *)
C30_Witness ==
  \E i \in 1..Len(entities) :
    /\ entities[i].type = "enemy" /\ entities[i].alive
    /\ entities[i].finished.id = "lunge"
    /\ entities[i].finished.elapsed = Lifetime("lunge")
    /\ steps = Lifetime("lunge") \div TickMs + 1
    /\ entities[i].hp < entities[i].maxHp
    /\ entities[i].slowDuration = Ms(4000)
    /\ entities[i].rootMs > 0 /\ entities[i].stunned
    /\ ~player.alive

(* C31: in one tick a boss starts at most one ability, the first of its    *)
(* phase in list order whose cooldown has run out, and makes its basic     *)
(* attack only when it started no ability in that tick and the target is   *)
(* within attack range.                                                    *)
Casts(i) ==
  {t \in 1..Len(obs'.trace) :
     /\ obs'.trace[t].id = entities[i].id
     /\ obs'.trace[t].stage \in CooldownKeys \ {"basic_attack"}}

BasicAttacks(i) ==
  {t \in HandlersOf(obs'.trace, "basic_attack") : obs'.trace[t].id = entities[i].id}

ReadyAbilities(e) ==
  {j \in 1..Len(PhaseAbilities(LowestQualifying(e))) :
     tickCooldowns(e).abilityCooldowns[PhaseAbilities(LowestQualifying(e))[j].id] <= 0}

FirstReady(e) ==
  PhaseAbilities(LowestQualifying(e))[
    CHOOSE j \in ReadyAbilities(e) : \A k \in ReadyAbilities(e) : j <= k].id

TargetDistance(i) ==
  dist(entities[i].pos,
       findEntity(World, findNearestPlayerAlly(World, entities[i].pos)).pos)

C31_AbilityElseBasicAttack ==
  [][\A i \in 1..Len(entities) :
       Acted(i) =>
         /\ Cardinality(Casts(i)) <= 1
         /\ \A t \in Casts(i) :
              ReadyAbilities(entities[i]) /= {}
              /\ obs'.trace[t].stage = FirstReady(entities[i])
         /\ (BasicAttacks(i) /= {}
               => Casts(i) = {} /\ TargetDistance(i) <= 30)]_vars


(* C32: a projectile invokes the damage pipeline at most once per entity   *)
(* over its whole lifetime, and a non-piercing projectile damages at most  *)
(* one entity. Stated tick by tick: no hit of a projectile lands on an     *)
(* entity of its already-hit set, no entity is hit twice in a tick, and a  *)
(* non-piercing projectile hits at most one entity, and none once it has   *)
(* hit. The splash on expiry is a hit of the projectile like any other.    *)
Flying == {i \in 1..Len(entities) : entities[i].type = "projectile" /\ entities[i].alive}

HitsOf(i, stages) ==
  {t \in 1..Len(obs'.trace) :
     obs'.trace[t].stage \in stages /\ obs'.trace[t].by = entities[i].id}

StruckBy(i, stages) == {obs'.trace[t].id : t \in HitsOf(i, stages)}

OncePerEntity(i, stages) ==
  /\ StruckBy(i, stages) \cap entities[i].hitEntities = {}
  /\ Cardinality(HitsOf(i, stages)) = Cardinality(StruckBy(i, stages))

Reflects(o, kind) == Cardinality({t \in 1..Len(o.reflects) : o.reflects[t] = kind})

C33_ReflectCooldowns ==
  [][IsDamageStep =>
       \A kind \in {"flat", "percentage"} :
         /\ Reflects(obs', kind) <= 1
         /\ Reflects(obs, kind) > 0 => Reflects(obs', kind) = 0]_vars

(* C34: updateStatusEffects counts the remaining duration of slow, brittle *)
(* and exposed down by the tick and, when it reaches 0, clears the status  *)
(* together with its stacks; an application sets the duration to the value *)
(* given; brittle ends by a hit that consumes it or by its timer, whichever *)
(* comes first, and an ended brittle becomes active only by an application *)
StatusTicked == HandlersOf(obs'.trace, "updateStatusEffects") /= {}

Applied(kind, id) ==
  {obs'.trace[t].id : t \in {u \in HandlersOf(obs'.trace, kind) : obs'.trace[u].by = id}}

HitOn(id) == lastEvent'.targetId = id

CountedDown(e, a) ==
  /\ a.slowDuration = Countdown(e.slowDuration)
  /\ a.brittleDuration = Countdown(e.brittleDuration)
  /\ a.exposedDuration = Countdown(e.exposedDuration)
  /\ a.slowStacks = IF e.slowDuration /= Undefined /\ a.slowDuration = Undefined
                    THEN 0 ELSE e.slowStacks
  /\ a.brittle = (e.brittle /\ a.brittleDuration /= Undefined)
  /\ a.exposed = (e.exposed /\ a.exposedDuration /= Undefined)

C34_StatusDurations ==
  [][\A i \in 1..Len(entities) :
       /\ (StatusTicked /\ entities[i].alive) => CountedDown(entities[i], After(i))
       /\ \A d \in Applied("applySlow", entities[i].id) : After(i).slowDuration = d
       /\ \A d \in Applied("applyBrittle", entities[i].id) :
            After(i).brittle /\ After(i).brittleDuration = d
       /\ \A d \in Applied("applyExposed", entities[i].id) :
            After(i).exposed /\ After(i).exposedDuration = d
       /\ (entities[i].brittle /\ entities[i].alive /\ HitOn(entities[i].id)) =>
            ~After(i).brittle /\ After(i).brittleDuration = Undefined
       /\ (entities[i].brittle /\ ~After(i).brittle) =>
            \/ HitOn(entities[i].id)
            \/ StatusTicked /\ entities[i].brittleDuration - TickMs <= 0
       /\ (~entities[i].brittle /\ After(i).brittle) =>
            Applied("applyBrittle", entities[i].id) /= {}
       /\ entities[i].brittle = (entities[i].brittleDuration /= Undefined)]_vars

C34_Witness ==
  /\ HandlersOf(obs.trace, "updateStatusEffects") /= {}
  /\ \E i \in 1..Len(entities) :
       /\ entities[i].alive
       /\ entities[i].slowDuration = Undefined /\ entities[i].slowStacks = 0
       /\ ~entities[i].brittle /\ entities[i].brittleDuration = Undefined
       /\ entities[i].exposed /\ entities[i].exposedDuration = 2 * TickMs
       /\ \E t \in 1..Len(combatLog) : combatLog[t].source = "brittle"

(* C35: a processBleed pass deals to each living entity with n > 0 bleed   *)
(* stacks exactly n damage and lowers its stacks to n - 1, and leaves every *)
(* other entity alone; with nothing reapplied the bleed hits an entity took *)
(* so far count down by one from its first stack count to one more than    *)
(* the stacks it has left, so n stacks are gone after exactly n passes     *)
(* unless the entity died first, and a bleed-free entity takes no more     *)
BleedPass == HandlersOf(obs'.trace, "processBleed") /= {}

BleedHits(log, id) ==
  SelectSeq(log, LAMBDA l : l.type = "damage" /\ l.source = "bleed" /\ l.target = id)

Bled(e, a) ==
  /\ a.bleedStacks = e.bleedStacks - 1
  /\ IF e.hp - e.bleedStacks * HpUnit > 0
     THEN a.alive /\ a.hp = e.hp - e.bleedStacks * HpUnit
     ELSE ~a.alive /\ a.hp = 0
  /\ BleedHits(combatLog', e.id)
       = Append(BleedHits(combatLog, e.id),
                LogEntry("damage", "bleed", -1, e.id, e.bleedStacks))

Spared(e, a) ==
  /\ a.bleedStacks = e.bleedStacks /\ a.hp = e.hp /\ a.alive = e.alive
  /\ BleedHits(combatLog', e.id) = BleedHits(combatLog, e.id)

CountsDown(hits, left) ==
  /\ \A k \in 1..(Len(hits) - 1) : hits[k + 1].value = hits[k].value - 1
  /\ hits /= <<>> => hits[Len(hits)].value = left + 1

C35_BleedPass ==
  [][\A i \in 1..Len(entities) :
       /\ BleedPass =>
            IF entities[i].alive /\ entities[i].bleedStacks > 0
            THEN Bled(entities[i], After(i))
            ELSE Spared(entities[i], After(i))
       /\ ~BleedPass => After(i).bleedStacks = entities[i].bleedStacks
       /\ CountsDown(BleedHits(combatLog', entities[i].id), After(i).bleedStacks)]_vars

C35_Witness ==
  /\ HandlersOf(obs.trace, "processBleed") /= {}
  /\ \E i \in 1..Len(entities) :
       /\ entities[i].alive /\ entities[i].bleedStacks = 0
       /\ Len(BleedHits(combatLog, entities[i].id)) = 2
       /\ entities[i].hp = 2 * HpUnit
  /\ \E i \in 1..Len(entities) :
       ~entities[i].alive /\ entities[i].bleedStacks > 0

(* C36: a projectile, hazard or summon is not alive after the tick in      *)
(* which its remaining lifetime or duration reaches 0, makes no collision  *)
(* hit, applies no hazard tick effect and makes no summon attack in that   *)
(* tick, is removed from the collection by the cleanup of that tick, and   *)
(* makes none of these once it is not alive                                *)
Timed == {i \in 1..Len(entities) : entities[i].type \in {"projectile", "hazard", "summon"}}

Remaining(e) == IF e.type = "projectile" THEN e.lifetime ELSE e.duration

ActsOf(id) ==
  {t \in 1..Len(obs'.trace) :
     \/ obs'.trace[t].stage \in {"summon", "hazardTick"} /\ obs'.trace[t].id = id
     \/ obs'.trace[t].stage \in {"projectile", "hazard"} /\ obs'.trace[t].by = id}

C36_ExpiredEntitiesStop ==
  [][\A i \in Timed :
       /\ entities[i].alive => Remaining(entities[i]) > 0
       /\ (~entities[i].alive \/ Remaining(entities[i]) - TickMs <= 0) =>
            /\ ActsOf(entities[i].id) = {}
            /\ Kept(i) => ~After(i).alive
       /\ (entities[i].alive /\ Remaining(entities[i]) - TickMs <= 0) => ~Kept(i)]_vars

C36_Witness ==
  /\ \E t \in 1..Len(obs.trace) : obs.trace[t].stage = "expired" /\ obs.trace[t].id = SummonId
  /\ \A i \in 1..Len(entities) : entities[i].id /= SummonId
  /\ \E i \in 1..Len(entities) : entities[i].type = "enemy" /\ entities[i].alive

(* C37: skill and auto-attack cooldowns advance with simulated time only:  *)
(* an action used at run time t and left with cooldown c is not used again *)
(* before run time t + c                                                   *)
C37_CooldownsFollowRunTime ==
  [][\A key \in DOMAIN game.used :
       (game'.used[key] /= game.used[key] /\ game.used[key].at /= Undefined) =>
         game'.used[key].at >= game.used[key].at + game.used[key].c]_vars

(* C38: defeat is terminal and reported once: once the player is not alive *)
(* every update leaves the phase at defeat with the run-end callback       *)
(* called exactly once so far, with won = false, no later step sets        *)
(* another phase, and no loot is granted, the delayed room-clear handler   *)
(* included                                                                *)
PhasesSet == {obs'.trace[t].by : t \in HandlersOf(obs'.trace, "setPhase")}

C38_DefeatIsTerminal ==
  [][~player.alive =>
       /\ game'.runTime /= game.runTime =>
            game'.phase = "defeat" /\ game'.runEnds = <<FALSE>>
       /\ game.phase = "defeat" => PhasesSet \subseteq {"defeat"}
       /\ game'.encounterHadItemDrop = game.encounterHadItemDrop]_vars

(* C39: for a boss whose phase thresholds decrease with the phase index    *)
(* the phase advances as health falls: the current phase index is at least *)
(* every index whose threshold the health ratio has reached, the abilities *)
(* used are those of the last such phase, and the index does not decrease  *)
(* from tick to tick (health does not rise in these runs)                  *)
Decreasing(thresholds) ==
  \A k \in 1..(Len(thresholds) - 1) : thresholds[k] > thresholds[k + 1]

HighestQualifying(e) ==
  IF Qualifying(e) = {} THEN 0
  ELSE CHOOSE k \in Qualifying(e) : \A j \in Qualifying(e) : j <= k

C39_PhaseAdvancesAsHealthFalls ==
  [][\A i \in 1..Len(entities) :
       (Acted(i) /\ Decreasing(entities[i].thresholds)) =>
         /\ \A k \in Qualifying(entities[i]) : After(i).currentPhase >= k
         /\ After(i).currentPhase >= entities[i].currentPhase
         /\ \A t \in 1..Len(obs'.trace) :
              (obs'.trace[t].id = entities[i].id
               /\ obs'.trace[t].stage \in CooldownKeys \ {"basic_attack"})
              => obs'.trace[t].stage \in AbilityIds(HighestQualifying(entities[i]))]_vars

(* C40: the number of alive player-faction summons never exceeds           *)
(* maxActiveSummons (8), and a summon skill used while 8 summons are alive *)
(* creates no new summon                                                   *)
SummonCast == HandlersOf(obs'.trace, "spawnSummon") /= {}

C40_SummonCap ==
  /\ [](Cardinality(ActiveSummons(World)) <= maxActiveSummons)
  /\ [][(SummonCast /\ Cardinality(ActiveSummons(World)) >= maxActiveSummons)
          => entities' = entities]_vars

C40_Witness ==
  /\ HandlersOf(obs.trace, "spawnSummon") /= {}
  /\ Cardinality(ActiveSummons(World)) = maxActiveSummons
  /\ \A t \in 1..Len(combatLog) : combatLog[t].type /= "summon"
  /\ \A i \in 1..Len(entities) : entities[i].alive
====
